---- MODULE Spec2Model ----
(***************************************************************************)
(* Orchestration and spend-cap engine of the travel assistant.             *)
(*                                                                         *)
(* Money is counted in units of 1e-7 USD, so that every price of the       *)
(* table of estimate_call_cost is an integer per token: a rate of 0.03 USD *)
(* per 1000 tokens is 300 units per token.  Months are numbered 0, 1, ...  *)
(* in calendar order; the number stands for the "YYYY-MM" string that      *)
(* datetime.utcnow().strftime("%Y-%m") returns.                            *)
(*                                                                         *)
(* Every chat turn is one task.  The steps of a turn are separated where   *)
(* the code touches the shared ledger or waits for the LLM: the cap check, *)
(* the HTTP request, the HTTP response, and the three database operations  *)
(* of record_llm_call.  Writes to the message store of the turn's own      *)
(* session are folded into the step they follow: no other session reads    *)
(* them.                                                                   *)
(***************************************************************************)
EXTENDS Integers, Sequences, FiniteSets, TLC

\* ------------------------------------------------------------------ bounds
MaxTurns == 2       \* chat turns started, all sessions together
MaxMonth == 1       \* months 0..MaxMonth
MaxCalls == 2       \* direct record_llm_call invocations (SpecGate)
MaxTokens == 2      \* token counts 0..MaxTokens of an estimate (SpecCost)
MaxBatch == 2       \* tool calls in one LLM response
MaxRequests == 1    \* turns started over a failing store (SpecChat)
MaxSearches == 2    \* calls of search_pois or of the POI provider (SpecPois)
MaxPlaces == 2      \* places in one answer of the POI provider
MaxDays == 2        \* day objects in the arguments of finalize_itinerary
MaxActivities == 2  \* activities of one day object
MaxSegments == 5    \* pieces that the text given to the parser is made of
MaxHotelCalls == 2  \* calls of search_hotels of a hotel provider (SpecHotels)
MaxLimit == 2       \* the limit argument of search_hotels is in 0..MaxLimit
MaxHotels == 2      \* hotels that match a search, upstream or in the table
MaxChats == 6       \* chat messages of the session whose contexts are built

Sessions == {"s1", "s2"}
Months == 0..MaxMonth
None == "none"
NoValue == -1       \* a NULL column or an absent key
Estimated == -2     \* a token count that estimate_tokens supplied
NoItinerary == 0    \* itinerary_id None

\* ------------------------------------------------- configuration and prices
\* settings.monthly_spend_cap_usd, in units of 1e-7 USD
CapChoices == {0, 200, 600}
\* model names; "other" is a model that the price table lacks
KnownModels == {"gpt-4", "gpt-4-turbo", "gpt-3.5-turbo"}
Models == KnownModels \cup {"other"}
\* settings.openai_model of the deployment
ModelChoices == {"gpt-4"}
\* usage.prompt_tokens, usage.completion_tokens reported by the provider
UsageChoices == {<<1, 0>>}

Gpt4Prompt == 300
Gpt4Completion == 600
Gpt4TurboPrompt == 100
Gpt4TurboCompletion == 300
Gpt35Prompt == 15
Gpt35Completion == 20

pricing ==
    [m \in KnownModels |->
        CASE m = "gpt-4" -> [prompt |-> Gpt4Prompt, completion |-> Gpt4Completion]
          [] m = "gpt-4-turbo" -> [prompt |-> Gpt4TurboPrompt, completion |-> Gpt4TurboCompletion]
          [] m = "gpt-3.5-turbo" -> [prompt |-> Gpt35Prompt, completion |-> Gpt35Completion]]

model_pricing_cheapest_default(model) ==
    IF model \in DOMAIN pricing THEN pricing[model] ELSE pricing["gpt-3.5-turbo"]

\* pricing.get(model, pricing["gpt-4"])
model_pricing(model) ==
    IF model \in DOMAIN pricing THEN pricing[model] ELSE pricing["gpt-4"]

estimate_call_cost(model, prompt_tokens, completion_tokens) ==
    prompt_tokens * model_pricing(model).prompt
        + completion_tokens * model_pricing(model).completion

\* ------------------------------------------------------------------ state
VARIABLES
    cap,            \* SpendCapManager.monthly_cap_usd
    openai_model,   \* settings.openai_model
    now,            \* the current UTC month
    ledger,         \* rows of llm_ledger, in insertion order
    messages,       \* rows of messages, per session, in insertion order
    pc,             \* position of each session's task
    loc,            \* locals of each session's task
    result,         \* what the last finished turn of a session returned
    budget,         \* turns (Spec) or direct calls (SpecGate) that may still start
    hist,           \* per session: LLM HTTP calls sent and answered
    crossing,       \* per month: the calls in flight when the cap was reached
    probe,          \* the last read operation of the gate and what it returned
    est,            \* last two results of estimate_call_cost
    raised,         \* per session: process_chat_message raised to its caller
    http,           \* the last response of the /chat handler
    tc,             \* one run of _handle_tool_calls over a batch of tool calls
    poi,            \* one run of search_pois over the POI provider
    itin,           \* itinerary tables and one run of finalize_itinerary
    parse,          \* one run of _parse_pseudo_tool_calls
    hotel,          \* the api cache of the hotel search and one run of search_hotels
    ctx             \* the stored messages of a session and the contexts built from them

\* the state of the orchestrator and the spend cap
corevars == <<cap, openai_model, now, ledger, messages, pc, loc, result,
              budget, hist, crossing, probe, est>>

\* the state of the parts that are exercised on their own
partvars == <<tc, poi, itin, parse, hotel, ctx>>
sidevars == <<raised, http, tc, poi, itin, parse, hotel, ctx>>

vars == <<corevars, sidevars>>

\* ----------------------------------------------------------- ledger reads
RECURSIVE SumCost(_)
SumCost(rows) ==
    IF rows = <<>> THEN 0 ELSE Head(rows).cost_usd + SumCost(Tail(rows))

SameMonth_up_to(row, month_key) == row.month_key <= month_key

SameMonth(row, month_key) == row.month_key = month_key

get_monthly_spend_all_months(rows, month_key) == SumCost(rows)

\* SELECT sum(cost_usd) FROM llm_ledger WHERE month_key = :month_key
get_monthly_spend(rows, month_key) ==
    SumCost(SelectSeq(rows, LAMBDA row : SameMonth(row, month_key)))

ledger_is_spend_cap_exceeded_strict(rows, cap_usd, month_key) ==
    get_monthly_spend(rows, month_key) > cap_usd

\* LedgerRepository.is_spend_cap_exceeded
ledger_is_spend_cap_exceeded(rows, cap_usd, month_key) ==
    get_monthly_spend(rows, month_key) >= cap_usd

\* SpendCapManager.is_spend_cap_exceeded
is_spend_cap_exceeded(rows, month_key) ==
    ledger_is_spend_cap_exceeded(rows, cap, month_key)

Max(a, b) == IF a >= b THEN a ELSE b

get_remaining_budget_unclamped(rows, month_key) ==
    cap - get_monthly_spend(rows, month_key)

get_remaining_budget(rows, month_key) ==
    Max(0, cap - get_monthly_spend(rows, month_key))

\* percentage_used is kept as the pair spent/cap: is_warning compares
\* spent / cap * 100 >= 80, that is 100 * spent >= 80 * cap for cap > 0
get_spend_status(rows, month_key) ==
    LET spent == get_monthly_spend(rows, month_key) IN
    [month |-> month_key,
     cap_usd |-> cap,
     spent_usd |-> spent,
     remaining_usd |-> Max(0, cap - spent),
     percentage_zero |-> ~(cap > 0) \/ spent = 0,
     is_capped |-> spent >= cap,
     is_warning |-> IF cap > 0 THEN 100 * spent >= 80 * cap ELSE 0 >= 80]

can_make_call(rows, month_key, model, prompt_tokens, completion_tokens) ==
    IF is_spend_cap_exceeded(rows, month_key)
    THEN FALSE
    ELSE estimate_call_cost(model, prompt_tokens, completion_tokens)
            <= get_remaining_budget(rows, month_key)

\* ------------------------------------------------------------ tool results
\* An ActionResult, reduced to what the orchestrator reads of it: its action,
\* its success flag, whether data is a dict (it is None in every failed
\* result) and data["count"] (0 when the result carries no count).
ActionResult(action, success, count) ==
    [action |-> action, success |-> success, has_data |-> success,
     count |-> count]

ActionResultOf(outcome) ==
    CASE outcome = "poi_found" -> ActionResult("search_pois", TRUE, 2)
      [] outcome = "poi_empty" -> ActionResult("search_pois", TRUE, 0)
      [] outcome = "poi_rejected" -> ActionResult("search_pois", FALSE, 0)
      [] outcome = "hotel_found" -> ActionResult("search_hotels", TRUE, 2)
      [] outcome = "hotel_empty" -> ActionResult("search_hotels", TRUE, 0)
      [] outcome = "hotel_rejected" -> ActionResult("search_hotels", FALSE, 0)
      [] outcome = "finalize_ok" -> ActionResult("finalize_itinerary", TRUE, 0)
      [] outcome = "finalize_rejected" -> ActionResult("finalize_itinerary", FALSE, 0)
      [] outcome = "unknown" -> ActionResult("unknown", FALSE, 0)

ToolOutcomes ==
    {"poi_found", "poi_empty", "poi_rejected", "hotel_found", "hotel_empty",
     "hotel_rejected", "finalize_ok", "finalize_rejected", "unknown"}

\* A tool call of a response, named by what becomes of it.  A call to
\* execute_travel_action whose arguments are a JSON object is named by the
\* outcome of its action; "invalid_json" has arguments that json.loads rejects
\* with JSONDecodeError; "not_object" has arguments that are JSON but no object
\* (a list, a string, null); "other_function" names another function.
CallKinds == ToolOutcomes \cup {"invalid_json", "not_object", "other_function"}

\* message["tool_calls"], or the calls that the pseudo parser found: not empty
CallBatches == UNION {[1..n -> CallKinds] : n \in 1..MaxBatch}

\* The call leaves the loop of _handle_tool_calls by an exception: args.get
\* in _execute_action is outside its try block, and the loop catches
\* JSONDecodeError only.
CallRaises(kind) == kind = "not_object"

\* the ActionResults that the loop appends for one tool call
ResultsOfCall(kind) ==
    CASE kind = "other_function" -> <<>>
      [] kind = "invalid_json" -> <<ActionResult("unknown", FALSE, 0)>>
      [] kind = "not_object" -> <<>>
      [] OTHER -> <<ActionResultOf(kind)>>

\* the results collected by the loop, up to the call that raises if one does
RECURSIVE LoopResults(_)
LoopResults(calls) ==
    IF calls = <<>> \/ CallRaises(Head(calls)) THEN <<>>
    ELSE ResultsOfCall(Head(calls)) \o LoopResults(Tail(calls))

LoopRaises(calls) == \E i \in DOMAIN calls : CallRaises(calls[i])

Range(f) == {f[i] : i \in DOMAIN f}

\* the line that _generate_tool_response writes for one result; <<>> is none
ResponsePart(r) ==
    IF ~r.success THEN <<"failed">>
    ELSE CASE r.action = "search_pois" ->
                IF r.count > 0 THEN <<"pois_found">> ELSE <<>>
           [] r.action = "search_hotels" ->
                IF r.count > 0 THEN <<"hotels_found">> ELSE <<"hotel_reassurance">>
           [] r.action = "finalize_itinerary" -> <<"itinerary_created">>
           [] OTHER -> <<>>

RECURSIVE ResponseParts(_)
ResponseParts(results) ==
    IF results = <<>> THEN <<>>
    ELSE ResponsePart(Head(results)) \o ResponseParts(Tail(results))

\* the text returned, as the sequence of its lines; <<>> is the empty string
generate_tool_response(results) ==
    IF results = <<>> THEN <<"could_not_execute">>
    ELSE LET response_parts == ResponseParts(results)
             poi_search_failed ==
                \E r \in Range(results) :
                    r.success /\ r.action = "search_pois" /\ ~(r.count > 0)
         IN IF poi_search_failed
                /\ ~(\E r \in Range(results) : r.action = "finalize_itinerary")
                /\ response_parts = <<>>
            THEN <<>>
            ELSE IF response_parts # <<>> THEN response_parts
                 ELSE <<"actions_completed">>

poi_failed(results) ==
    \E r \in Range(results) :
        r.action = "search_pois" /\ r.success /\ r.has_data /\ r.count = 0

hotel_failed(results) ==
    \E r \in Range(results) :
        r.action = "search_hotels" /\ r.success /\ r.has_data /\ r.count = 0

itinerary_created(results) ==
    \E r \in Range(results) : r.action = "finalize_itinerary" /\ r.success

\* the condition of the no-tools continuation call in _handle_tool_calls
needs_continuation(results) ==
    generate_tool_response(results) = <<>>
        \/ ((poi_failed(results) \/ hotel_failed(results))
                /\ ~itinerary_created(results))

\* The itinerary_id that the loop over the tool calls ends with: that of the
\* last successful finalize_itinerary.  An itinerary is named by the position
\* of the tool call that created it.
RECURSIVE LastItinerary(_, _)
LastItinerary(results, i) ==
    IF i = 0 THEN NoItinerary
    ELSE IF results[i].action = "finalize_itinerary" /\ results[i].success
         THEN i
         ELSE LastItinerary(results, i - 1)

\* _generate_tool_summary_for_llm reads data.get of every search_pois and
\* search_hotels result, failed ones included: on a result whose data is None
\* that raises AttributeError.
generate_tool_summary_for_llm(results) ==
    IF \E r \in Range(results) :
            r.action \in {"search_pois", "search_hotels"} /\ ~r.has_data
    THEN "AttributeError"
    ELSE "summary"

\* What _handle_tool_calls makes of a batch of tool calls: whether an
\* exception leaves it (from the loop, or from the summary that is written
\* before the try block of the continuation), whether the continuation call is
\* made, and the itinerary_id of the turn.
handle_tool_calls(calls) ==
    LET results == LoopResults(calls)
        continuation == needs_continuation(results)
        raises == \/ LoopRaises(calls)
                  \/ /\ continuation
                     /\ generate_tool_summary_for_llm(results) = "AttributeError"
    IN [raises |-> raises,
        continuation |-> ~raises /\ continuation,
        itinerary_id |-> IF raises THEN NoItinerary
                         ELSE LastItinerary(results, Len(results))]

BatchEffects == {handle_tool_calls(calls) : calls \in CallBatches}

\* ------------------------------------------------------------------- rows

Message(role, content, tokens_in, tokens_out, cost_usd) ==
    [role |-> role, content |-> content, tokens_in |-> tokens_in,
     tokens_out |-> tokens_out, cost_usd |-> cost_usd]

UserMessage == Message("user", "user_message", Estimated, NoValue, NoValue)
FallbackMessage == Message("assistant", "cap_fallback", NoValue, Estimated, NoValue)
LlmErrorMessage == Message("assistant", "llm_error", NoValue, NoValue, NoValue)

Result(response, success, spend_capped, itinerary_id) ==
    [response |-> response, success |-> success,
     spend_capped |-> spend_capped, itinerary_id |-> itinerary_id]

NoResult == Result("none", FALSE, FALSE, NoItinerary)

LocInit ==
    [call |-> None, model |-> None, prompt_tokens |-> 0, completion_tokens |-> 0,
     actual_cost_usd |-> NoValue, shape |-> None,
     primary_prompt |-> 0, primary_completion |-> 0,
     itinerary_id |-> NoItinerary,
     exceeded |-> FALSE, current_spend |-> 0,
     begin_rows |-> 0, begin_month |-> 0]

HistInit == [sent |-> 0, answered |-> 0]

NoCrossing == [reached |-> FALSE, flight |-> {}, cost |-> 0]

NoProbe == [op |-> None, month_key |-> NoValue, clock |-> 0, rows |-> 0,
            flag |-> FALSE, amount |-> 0,
            prior |-> FALSE, prior_clock |-> 0, prior_flag |-> FALSE,
            prior_amount |-> 0]
NoEstimate == [model |-> None, prompt_tokens |-> 0, completion_tokens |-> 0, cost |-> 0]

\* ---- the parts exercised on their own, before anything has run on them
\* no /chat request has been answered
NoResponse == [status |-> 0, well_formed |-> FALSE]

ChatAtRest ==
    /\ raised = [s \in Sessions |-> FALSE]
    /\ http = NoResponse

\* _handle_tool_calls has not been entered
NoBatch ==
    [calls |-> <<>>, i |-> 0, results |-> <<>>, status |-> "rest",
     continued |-> FALSE, rendered |-> <<>>, success |-> FALSE,
     itinerary_id |-> NoItinerary]

ToolsAtRest == tc = NoBatch

\* the ActionResult of search_pois, before the action has returned one
NoPoiResult ==
    [returned |-> FALSE, success |-> FALSE, count |-> 0,
     use_llm_knowledge |-> FALSE, api_success |-> FALSE]

\* neither search_pois nor the POI provider has been called; the api cache
\* holds no entry
NoSearch ==
    [op |-> None, city |-> None, status |-> "idle", left |-> 0,
     provider_calls |-> 0, provider |-> None, places |-> 0,
     cache |-> [radius_search |-> NoValue, place_details |-> NoValue],
     action |-> NoPoiResult,
     requests |-> 0, written |-> FALSE, expired |-> FALSE,
     earlier |-> [fetched |-> FALSE, places |-> 0]]

PoisAtRest == poi = NoSearch

\* finalize_itinerary has not been called; the tables itineraries,
\* itinerary_days and itinerary_items are empty
NoFinalize ==
    [status |-> "idle", city |-> None, start_date |-> None, end_date |-> None,
     n_days |-> 0, days |-> <<>>,
     success |-> FALSE, error |-> None, days_count |-> 0,
     itineraries |-> 0, day_rows |-> <<>>, item_rows |-> <<>>,
     export |-> <<>>]

ItinAtRest == itin = NoFinalize

\* the parser has not been applied
NoParse == [content |-> <<>>, parsed |-> FALSE, calls |-> <<>>,
            none |-> FALSE, preface |-> <<>>]

ParseAtRest == parse = NoParse

\* no hotel provider has been called; the api cache holds no hotel search
NoHotelSearch ==
    [status |-> "idle", left |-> 0, provider |-> None, limit |-> 0,
     hotels_data |-> 0, from_cache |-> FALSE, returned |-> 0,
     cache |-> NoValue]

HotelsAtRest == hotel = NoHotelSearch

\* the session has no stored message and no context has been built
NoContext ==
    [status |-> "idle", stored |-> <<>>, current_message |-> None,
     form_context |-> FALSE, primary |-> <<>>, continuation |-> <<>>,
     turns |-> 0]

ContextAtRest == ctx = NoContext

SideAtRest ==
    /\ ChatAtRest /\ ToolsAtRest /\ PoisAtRest /\ ItinAtRest /\ ParseAtRest
    /\ HotelsAtRest /\ ContextAtRest

\* the orchestrator and the ledger after construction, with n turns to come
CoreInit(n) ==
    /\ cap \in CapChoices
    /\ openai_model \in ModelChoices
    /\ now = 0
    /\ ledger = <<>>
    /\ messages = [s \in Sessions |-> <<>>]
    /\ pc = [s \in Sessions |-> "idle"]
    /\ loc = [s \in Sessions |-> LocInit]
    /\ result = [s \in Sessions |-> NoResult]
    /\ budget = n
    /\ hist = [s \in Sessions |-> HistInit]
    /\ crossing = [m \in Months |-> NoCrossing]
    /\ probe = NoProbe
    /\ est = <<NoEstimate, NoEstimate>>

InitWith(n) == CoreInit(n) /\ SideAtRest

\* the orchestrator idle, for the runs of one of its parts alone
CoreAtRest == CoreInit(0) /\ cap = 600

Init == InitWith(MaxTurns)

\* -------------------------------------------------------------- the clock
\* datetime.utcnow() enters the next month
Tick ==
    /\ now < MaxMonth
    /\ now' = now + 1
    /\ UNCHANGED <<sidevars, cap, openai_model, ledger, messages, pc, loc, result,
                   budget, hist, crossing, probe, est>>

\* ------------------------------------------------ calls in flight at the cap
\* a call that has passed its cap check, or was sent, and is not yet recorded
InFlight(t) ==
    pc[t] \in {"primary_send", "primary_wait", "cont_wait",
               "rec_check", "rec_spend", "rec_write"}

\* bookkeeping of the calls in flight when a month's total reaches the cap
CrossingAfterWrite(s, cost) ==
    [m \in Months |->
        LET before == get_monthly_spend(ledger, m)
            counted == IF s \in crossing[m].flight
                       THEN [crossing[m] EXCEPT !.flight = @ \ {s}, !.cost = @ + cost]
                       ELSE crossing[m]
        IN IF m = now /\ ~crossing[m].reached /\ before < cap /\ before + cost >= cap
           THEN [reached |-> TRUE,
                 flight |-> {t \in Sessions \ {s} : InFlight(t)},
                 cost |-> cost]
           ELSE counted]

\* a call in flight fails: it will not be recorded
CrossingAfterFailure(s) ==
    [m \in Months |-> [crossing[m] EXCEPT !.flight = @ \ {s}]]

\* ------------------------------------------------------ process_chat_message
Return_without_store(s, message, res) ==
    /\ result' = [result EXCEPT ![s] = res]
    /\ pc' = [pc EXCEPT ![s] = "idle"]
    /\ loc' = [loc EXCEPT ![s] = LocInit]
    /\ UNCHANGED messages

\* the turn returns: its assistant message is stored and its result handed back
Return(s, message, res) ==
    /\ messages' = [messages EXCEPT ![s] = Append(@, message)]
    /\ result' = [result EXCEPT ![s] = res]
    /\ pc' = [pc EXCEPT ![s] = "idle"]
    /\ loc' = [loc EXCEPT ![s] = LocInit]

\* The cap check at the start of a turn.  Over the cap, the user message and
\* the fallback message are stored and the turn returns; otherwise the user
\* message is stored and the context is built.
StartTurn(s) ==
    /\ pc[s] = "idle"
    /\ budget > 0
    /\ budget' = budget - 1
    /\ IF is_spend_cap_exceeded(ledger, now)
       THEN /\ messages' = [messages EXCEPT ![s] = @ \o <<UserMessage, FallbackMessage>>]
            /\ result' = [result EXCEPT ![s] =
                            Result("cap_fallback", FALSE, TRUE, NoItinerary)]
            /\ UNCHANGED <<pc, loc>>
       ELSE /\ messages' = [messages EXCEPT ![s] = Append(@, UserMessage)]
            /\ pc' = [pc EXCEPT ![s] = "primary_send"]
            /\ UNCHANGED <<loc, result>>
    /\ UNCHANGED <<sidevars, cap, openai_model, now, ledger, hist, crossing,
                   probe, est>>

\* ------------------------------------------------------ _call_llm_with_tools
\* openai_client.post("/chat/completions") with the tool definition is sent
SendPrimary(s) ==
    /\ pc[s] = "primary_send"
    /\ pc' = [pc EXCEPT ![s] = "primary_wait"]
    /\ hist' = [hist EXCEPT ![s].sent = @ + 1]
    /\ UNCHANGED <<sidevars, cap, openai_model, now, ledger, messages, loc, result,
                   budget, crossing, probe, est>>

PrimaryFailed_retrying(s) ==
    /\ pc[s] = "primary_wait"
    /\ pc' = [pc EXCEPT ![s] = "primary_send"]
    /\ UNCHANGED <<sidevars, cap, openai_model, now, ledger, messages, loc,
                   result, budget, hist, crossing, probe, est>>

\* The request fails: a network error, a non-2xx status (raise_for_status) or
\* a body that is not JSON.  The except clauses return success False and
\* process_chat_message stores the apology.
PrimaryFailed(s) ==
    /\ pc[s] = "primary_wait"
    /\ Return(s, LlmErrorMessage, Result("llm_error", FALSE, FALSE, NoItinerary))
    /\ crossing' = CrossingAfterFailure(s)
    /\ UNCHANGED <<sidevars, cap, openai_model, now, ledger, budget, hist, probe, est>>

\* A 2xx JSON response arrives with its usage; record_llm_call begins.  The
\* shape of the response decides what follows the ledger write.
PrimaryResponse(s) ==
    /\ pc[s] = "primary_wait"
    /\ \E usage \in UsageChoices, shape \in {"malformed", "text", "tools"} :
            loc' = [loc EXCEPT ![s] =
                        [@ EXCEPT !.call = "primary", !.model = openai_model,
                                  !.prompt_tokens = usage[1],
                                  !.completion_tokens = usage[2],
                                  !.actual_cost_usd = NoValue,
                                  !.shape = shape,
                                  !.begin_rows = Len(ledger),
                                  !.begin_month = now]]
    /\ pc' = [pc EXCEPT ![s] = "rec_check"]
    /\ hist' = [hist EXCEPT ![s].answered = @ + 1]
    /\ UNCHANGED <<sidevars, cap, openai_model, now, ledger, messages, result,
                   budget, crossing, probe, est>>

\* ------------------------------------------------------------ record_llm_call
\* actual_cost_usd when given, the estimate otherwise
CallCost(l) ==
    IF l.actual_cost_usd = NoValue
    THEN estimate_call_cost(l.model, l.prompt_tokens, l.completion_tokens)
    ELSE l.actual_cost_usd

\* if not self.is_spend_cap_exceeded()
RecCheck(s) ==
    /\ pc[s] = "rec_check"
    /\ LET exceeded == is_spend_cap_exceeded(ledger, now) IN
        /\ loc' = [loc EXCEPT ![s].exceeded = exceeded]
        /\ pc' = [pc EXCEPT ![s] = IF exceeded THEN "rec_write" ELSE "rec_spend"]
    /\ UNCHANGED <<sidevars, cap, openai_model, now, ledger, messages, result, budget,
                   hist, crossing, probe, est>>

\* current_spend = self.ledger_repo.get_monthly_spend()
RecSpend(s) ==
    /\ pc[s] = "rec_spend"
    /\ loc' = [loc EXCEPT ![s].current_spend = get_monthly_spend(ledger, now)]
    /\ pc' = [pc EXCEPT ![s] = "rec_write"]
    /\ UNCHANGED <<sidevars, cap, openai_model, now, ledger, messages, result, budget,
                   hist, crossing, probe, est>>

blocked_after_when_exceeded(l) ==
    l.exceeded \/ l.current_spend + CallCost(l) >= cap

blocked_after_strict(l) ==
    ~l.exceeded /\ l.current_spend + CallCost(l) > cap

blocked_after(l) ==
    ~l.exceeded /\ l.current_spend + CallCost(l) >= cap

record_usage_unless_blocked(rows, session_id, l, flag, month_key) ==
    IF flag THEN rows
    ELSE Append(rows,
            [session_id |-> session_id, model |-> l.model,
             prompt_tokens |-> l.prompt_tokens,
             completion_tokens |-> l.completion_tokens,
             cost_usd |-> CallCost(l), month_key |-> month_key,
             blocked_after |-> flag])

\* LedgerRepository.record_usage: month_key is read from the clock at insert
record_usage(rows, session_id, l, flag, month_key) ==
    Append(rows,
        [session_id |-> session_id, model |-> l.model,
         prompt_tokens |-> l.prompt_tokens,
         completion_tokens |-> l.completion_tokens,
         cost_usd |-> CallCost(l), month_key |-> month_key,
         blocked_after |-> flag])

AssistantMessage(content, tokens_in, tokens_out) ==
    Message("assistant", content, tokens_in, tokens_out, NoValue)

\* The ledger insert, and what the caller does with the response after it.
RecWrite(s) ==
    /\ pc[s] = "rec_write"
    /\ LET l == loc[s]
           p == l.prompt_tokens
           c == l.completion_tokens
       IN
        /\ ledger' = record_usage(ledger, s, l, blocked_after(l), now)
        /\ crossing' = CrossingAfterWrite(s, CallCost(l))
        /\ CASE l.call = "gate" ->
                    /\ pc' = [pc EXCEPT ![s] = "idle"]
                    /\ loc' = [loc EXCEPT ![s] = LocInit]
                    /\ UNCHANGED <<messages, result>>
             [] l.call = "primary" /\ l.shape = "malformed" ->
                    \* data["choices"][0]["message"] raises: success False
                    Return(s, LlmErrorMessage,
                           Result("llm_error", FALSE, FALSE, NoItinerary))
             [] l.call = "primary" /\ l.shape = "text" ->
                    Return(s, AssistantMessage("llm_text", p, c),
                           Result("llm_text", TRUE, FALSE, NoItinerary))
             [] l.call = "primary" /\ l.shape = "empty" ->
                    \* message.get("content", "") is the empty string
                    Return(s, AssistantMessage("", p, c),
                           Result("", TRUE, FALSE, NoItinerary))
             [] l.call = "primary" /\ l.shape = "tools" ->
                    /\ pc' = [pc EXCEPT ![s] = "tools"]
                    /\ loc' = [loc EXCEPT ![s] =
                                [@ EXCEPT !.primary_prompt = p,
                                          !.primary_completion = c]]
                    /\ UNCHANGED <<messages, result>>
             [] l.call = "continuation" /\ l.shape = "malformed" ->
                    \* the except clause of the follow-up: the default text
                    Return(s, AssistantMessage("ready_to_help",
                                l.primary_prompt, l.primary_completion),
                           Result("ready_to_help", TRUE, FALSE, l.itinerary_id))
             [] l.call = "continuation" /\ l.shape = "text" ->
                    Return(s, AssistantMessage("follow_up",
                                l.primary_prompt + p, l.primary_completion + c),
                           Result("follow_up", TRUE, FALSE, l.itinerary_id))
    /\ UNCHANGED <<sidevars, cap, openai_model, now, budget, hist,
                   probe, est>>

\* ---------------------------------------------------------- _handle_tool_calls
\* The tool calls of the response are executed in order, then the response
\* text is generated and the continuation decided.
ExecuteTools(s) ==
    /\ pc[s] = "tools"
    /\ \E effect \in BatchEffects :
        LET itinerary_id == effect.itinerary_id IN
        /\ IF effect.raises
           THEN \* the except clause of _call_llm_with_tools: success False
                Return(s, LlmErrorMessage,
                       Result("llm_error", FALSE, FALSE, NoItinerary))
           ELSE IF effect.continuation
           THEN /\ pc' = [pc EXCEPT ![s] = "cont_send"]
                /\ loc' = [loc EXCEPT ![s].itinerary_id = itinerary_id]
                /\ UNCHANGED <<messages, result>>
           ELSE Return(s, AssistantMessage("tool_response",
                            loc[s].primary_prompt, loc[s].primary_completion),
                       Result("tool_response", TRUE, FALSE, itinerary_id))
    /\ UNCHANGED <<sidevars, cap, openai_model, now, ledger, budget, hist, crossing,
                   probe, est>>

SendContinuation_resending(s) ==
    /\ pc[s] = "cont_send"
    /\ hist' = [hist EXCEPT ![s].sent = @ + 1]
    /\ UNCHANGED <<sidevars, cap, openai_model, now, ledger, messages, pc, loc,
                   result, budget, crossing, probe, est>>

\* openai_client.post("/chat/completions") without tools is sent
SendContinuation(s) ==
    /\ pc[s] = "cont_send"
    /\ pc' = [pc EXCEPT ![s] = "cont_wait"]
    /\ hist' = [hist EXCEPT ![s].sent = @ + 1]
    /\ UNCHANGED <<sidevars, cap, openai_model, now, ledger, messages, loc, result,
                   budget, crossing, probe, est>>

ContinuationFailed_propagating(s) ==
    /\ pc[s] = "cont_wait"
    /\ Return(s, LlmErrorMessage, Result("llm_error", FALSE, FALSE, NoItinerary))
    /\ crossing' = CrossingAfterFailure(s)
    /\ UNCHANGED <<sidevars, cap, openai_model, now, ledger, budget, hist, probe, est>>

\* the follow-up request fails: the default text replaces the reply
ContinuationFailed(s) ==
    /\ pc[s] = "cont_wait"
    /\ Return(s, AssistantMessage("ready_to_help",
                    loc[s].primary_prompt, loc[s].primary_completion),
              Result("ready_to_help", TRUE, FALSE, loc[s].itinerary_id))
    /\ crossing' = CrossingAfterFailure(s)
    /\ UNCHANGED <<sidevars, cap, openai_model, now, ledger, budget, hist, probe, est>>

\* the follow-up response arrives with its usage; record_llm_call begins
ContinuationResponse(s) ==
    /\ pc[s] = "cont_wait"
    /\ \E usage \in UsageChoices, shape \in {"malformed", "text"} :
            loc' = [loc EXCEPT ![s] =
                        [@ EXCEPT !.call = "continuation", !.model = openai_model,
                                  !.prompt_tokens = usage[1],
                                  !.completion_tokens = usage[2],
                                  !.actual_cost_usd = NoValue,
                                  !.shape = shape,
                                  !.begin_rows = Len(ledger),
                                  !.begin_month = now]]
    /\ pc' = [pc EXCEPT ![s] = "rec_check"]
    /\ hist' = [hist EXCEPT ![s].answered = @ + 1]
    /\ UNCHANGED <<sidevars, cap, openai_model, now, ledger, messages, result,
                   budget, crossing, probe, est>>

Next ==
    \/ Tick
    \/ \E s \in Sessions : StartTurn(s)
    \/ \E s \in Sessions : SendPrimary(s)
    \/ \E s \in Sessions : PrimaryFailed(s)
    \/ \E s \in Sessions : PrimaryResponse(s)
    \/ \E s \in Sessions : RecCheck(s)
    \/ \E s \in Sessions : RecSpend(s)
    \/ \E s \in Sessions : RecWrite(s)
    \/ \E s \in Sessions : ExecuteTools(s)
    \/ \E s \in Sessions : SendContinuation(s)
    \/ \E s \in Sessions : ContinuationFailed(s)
    \/ \E s \in Sessions : ContinuationResponse(s)

Spec == Init /\ [][Next]_vars

\* ------------------------------------------- the gate called directly
\* SpendCapManager used as a library by concurrent callers: record_llm_call
\* with arguments of the caller's choice, and the read operations.
\* the arguments tried: an unlisted model that is estimated, and a listed
\* model whose cost the caller supplies
GateArguments ==
    {[model |-> "other", actual_cost_usd |-> NoValue],
     [model |-> "gpt-4-turbo", actual_cost_usd |-> 200]}

InitGate == InitWith(MaxCalls)

\* record_llm_call(session_id, model, prompt_tokens, completion_tokens,
\*                 actual_cost_usd) is entered
GateRecordBegin(s) ==
    /\ pc[s] = "idle"
    /\ budget > 0
    /\ budget' = budget - 1
    /\ \E arguments \in GateArguments, usage \in UsageChoices :
            loc' = [loc EXCEPT ![s] =
                        [@ EXCEPT !.call = "gate", !.model = arguments.model,
                                  !.prompt_tokens = usage[1],
                                  !.completion_tokens = usage[2],
                                  !.actual_cost_usd = arguments.actual_cost_usd,
                                  !.begin_rows = Len(ledger),
                                  !.begin_month = now]]
    /\ pc' = [pc EXCEPT ![s] = "rec_check"]
    /\ UNCHANGED <<sidevars, cap, openai_model, now, ledger, messages, result, hist,
                   crossing, probe, est>>

ResolveMonth_ignoring_argument(month_key) == now

\* if month_key is None: month_key = datetime.utcnow().strftime("%Y-%m")
ResolveMonth(month_key) == IF month_key = NoValue THEN now ELSE month_key

ReadOps == {"is_exceeded", "remaining_budget", "status", "can_afford"}

\* what a read operation returns: its boolean and its amount
ReadValue(op, month_key) ==
    CASE op = "is_exceeded" ->
            [flag |-> is_spend_cap_exceeded(ledger, ResolveMonth(month_key)),
             amount |-> 0]
      [] op = "remaining_budget" ->
            [flag |-> FALSE,
             amount |-> get_remaining_budget(ledger, ResolveMonth(month_key))]
      [] op = "status" ->
            [flag |-> get_spend_status(ledger, ResolveMonth(month_key)).is_capped,
             amount |-> get_spend_status(ledger, ResolveMonth(month_key)).remaining_usd]
      [] op = "can_afford" ->
            \* can_make_call takes no month: it asks about the current one
            [flag |-> can_make_call(ledger, now, "gpt-4", 1, 0), amount |-> 0]

\* A caller invokes one of the read operations, for a month or for the
\* current month (month_key None).  probe keeps what it returned and, when
\* the previous read was the same operation with the same argument and the
\* ledger has not been written since, what that one returned.
GateRead ==
    /\ \E op \in ReadOps, month_key \in Months \cup {NoValue} :
        /\ op = "can_afford" => month_key = NoValue
        /\ LET repeated == /\ probe.op = op
                            /\ probe.month_key = month_key
                            /\ probe.rows = Len(ledger)
           IN probe' = [op |-> op, month_key |-> month_key, clock |-> now,
                        rows |-> Len(ledger),
                        flag |-> ReadValue(op, month_key).flag,
                        amount |-> ReadValue(op, month_key).amount,
                        prior |-> repeated,
                        prior_clock |-> IF repeated THEN probe.clock ELSE 0,
                        prior_flag |-> IF repeated THEN probe.flag ELSE FALSE,
                        prior_amount |-> IF repeated THEN probe.amount ELSE 0]
    /\ UNCHANGED <<sidevars, cap, openai_model, now, ledger, messages, pc, loc, result,
                   budget, hist, crossing, est>>

NextGate ==
    \/ Tick
    \/ GateRead
    \/ \E s \in Sessions : GateRecordBegin(s)
    \/ \E s \in Sessions : RecCheck(s)
    \/ \E s \in Sessions : RecSpend(s)
    \/ \E s \in Sessions : RecWrite(s)

SpecGate == InitGate /\ [][NextGate]_vars

\* ------------------------------------------------- estimate_call_cost alone
Tokens == 0..MaxTokens

\* estimate_call_cost is applied to a model and two token counts; the last
\* two applications are kept
Estimate ==
    /\ \E model \in Models, prompt_tokens \in Tokens, completion_tokens \in Tokens :
            est' = <<est[2],
                     [model |-> model, prompt_tokens |-> prompt_tokens,
                      completion_tokens |-> completion_tokens,
                      cost |-> estimate_call_cost(model, prompt_tokens,
                                                  completion_tokens)]>>
    /\ UNCHANGED <<sidevars, cap, openai_model, now, ledger, messages, pc, loc, result,
                   budget, hist, crossing, probe>>

NextCost == Estimate

SpecCost == Init /\ [][NextCost]_vars

\* ------------------------------------------- the turn over a failing store
\* process_chat_message when an operation of the database can fail, and the
\* /chat handler in front of it.

UnexpectedErrorMessage ==
    Message("assistant", "unexpected_error", NoValue, Estimated, NoValue)

\* The top-level except clause of process_chat_message: the apology is stored
\* when the store works (a failure of that store is swallowed) and the turn
\* returns success False.
CaughtAtTopLevel(s) ==
    /\ \E stored \in BOOLEAN :
        messages' = [messages EXCEPT ![s] =
                        IF stored THEN Append(@, UnexpectedErrorMessage) ELSE @]
    /\ result' = [result EXCEPT ![s] =
                    Result("unexpected_error", FALSE, FALSE, NoItinerary)]
    /\ pc' = [pc EXCEPT ![s] = "idle"]
    /\ loc' = [loc EXCEPT ![s] = LocInit]

\* The read of the ledger in the cap check fails.  The check is made before
\* the try block is entered: the exception leaves process_chat_message.
CapCheckRaises(s) ==
    /\ pc[s] = "idle"
    /\ budget > 0
    /\ budget' = budget - 1
    /\ raised' = [raised EXCEPT ![s] = TRUE]
    /\ UNCHANGED <<partvars, http, cap, openai_model, now, ledger, messages,
                   pc, loc, result, hist, crossing, probe, est>>

\* Over the cap, the store of the user message or of the fallback message
\* fails: both stores are made before the try block is entered.
CapFallbackStoreFails(s) ==
    /\ pc[s] = "idle"
    /\ budget > 0
    /\ is_spend_cap_exceeded(ledger, now)
    /\ budget' = budget - 1
    /\ \E kept \in {<<>>, <<UserMessage>>} :
            messages' = [messages EXCEPT ![s] = @ \o kept]
    /\ raised' = [raised EXCEPT ![s] = TRUE]
    /\ UNCHANGED <<partvars, http, cap, openai_model, now, ledger,
                   pc, loc, result, hist, crossing, probe, est>>

\* under the cap, the store of the user message fails
UserStoreFails(s) ==
    /\ pc[s] = "idle"
    /\ budget > 0
    /\ ~is_spend_cap_exceeded(ledger, now)
    /\ budget' = budget - 1
    /\ CaughtAtTopLevel(s)
    /\ UNCHANGED <<sidevars, cap, openai_model, now, ledger,
                   hist, crossing, probe, est>>

\* get_recent_messages fails while the context is built
ContextReadFails(s) ==
    /\ pc[s] = "primary_send"
    /\ CaughtAtTopLevel(s)
    /\ crossing' = CrossingAfterFailure(s)
    /\ UNCHANGED <<sidevars, cap, openai_model, now, ledger, budget,
                   hist, probe, est>>

\* the primary request fails and the store of its apology fails too
ApologyStoreFails(s) ==
    /\ pc[s] = "primary_wait"
    /\ CaughtAtTopLevel(s)
    /\ crossing' = CrossingAfterFailure(s)
    /\ UNCHANGED <<sidevars, cap, openai_model, now, ledger, budget,
                   hist, probe, est>>

\* A read or the insert of record_llm_call fails.  After the primary call the
\* except clause of _call_llm_with_tools reports success False; after the
\* follow-up call the default text is returned.  The store that follows may
\* fail as well.
LedgerFails(s) ==
    /\ pc[s] \in {"rec_check", "rec_spend", "rec_write"}
    /\ loc[s].call \in {"primary", "continuation"}
    /\ \/ /\ loc[s].call = "primary"
          /\ Return(s, LlmErrorMessage,
                    Result("llm_error", FALSE, FALSE, NoItinerary))
       \/ /\ loc[s].call = "continuation"
          /\ Return(s, AssistantMessage("ready_to_help",
                        loc[s].primary_prompt, loc[s].primary_completion),
                    Result("ready_to_help", TRUE, FALSE, loc[s].itinerary_id))
       \/ CaughtAtTopLevel(s)
    /\ crossing' = CrossingAfterFailure(s)
    /\ UNCHANGED <<sidevars, cap, openai_model, now, ledger, budget,
                   hist, probe, est>>

\* the call is recorded and the store of the assistant message fails
AssistantStoreFails(s) ==
    /\ pc[s] = "rec_write"
    /\ \/ loc[s].call = "primary" /\ loc[s].shape \in {"text", "empty"}
       \/ loc[s].call = "continuation"
    /\ ledger' = record_usage(ledger, s, loc[s], blocked_after(loc[s]), now)
    /\ crossing' = CrossingAfterWrite(s, CallCost(loc[s]))
    /\ CaughtAtTopLevel(s)
    /\ UNCHANGED <<sidevars, cap, openai_model, now, budget,
                   hist, probe, est>>

\* a 2xx response whose message has the empty string as content and no tool
\* call
PrimaryResponseEmpty(s) ==
    /\ pc[s] = "primary_wait"
    /\ \E usage \in UsageChoices :
            loc' = [loc EXCEPT ![s] =
                        [@ EXCEPT !.call = "primary", !.model = openai_model,
                                  !.prompt_tokens = usage[1],
                                  !.completion_tokens = usage[2],
                                  !.actual_cost_usd = NoValue,
                                  !.shape = "empty",
                                  !.begin_rows = Len(ledger),
                                  !.begin_month = now]]
    /\ pc' = [pc EXCEPT ![s] = "rec_check"]
    /\ hist' = [hist EXCEPT ![s].answered = @ + 1]
    /\ UNCHANGED <<sidevars, cap, openai_model, now, ledger, messages, result,
                   budget, crossing, probe, est>>

\* the fields of a submission that the handler validates
Submissions ==
    [start_date : {"absent", "valid", "unparsable"},
     budget_tier : {"mid", "luxury"}]

\* a submission that passes the validation of the handler
WellFormed(form_data) ==
    form_data.start_date # "unparsable" /\ form_data.budget_tier = "mid"

\* The status that the /chat handler answers with.  A date that strptime
\* rejects and a form that ChatForm rejects give 400.  Otherwise the session
\* is found or created and the arguments of process_chat_message are
\* evaluated: ChatForm has the fields message, city, country, start_date,
\* end_date and budget_tier, so form.destination raises AttributeError, which
\* the handler turns into 500 before process_chat_message is called.
chat(form_data) ==
    IF form_data.start_date = "unparsable" THEN 400
    ELSE IF form_data.budget_tier # "mid" THEN 400
    ELSE 500

ChatRequest ==
    /\ \E form_data \in Submissions :
            http' = [status |-> chat(form_data),
                     well_formed |-> WellFormed(form_data)]
    /\ UNCHANGED <<corevars, partvars, raised>>

InitChat == InitWith(MaxRequests)

NextChat ==
    \/ ChatRequest
    \/ \E s \in Sessions : StartTurn(s)
    \/ \E s \in Sessions : CapCheckRaises(s)
    \/ \E s \in Sessions : CapFallbackStoreFails(s)
    \/ \E s \in Sessions : UserStoreFails(s)
    \/ \E s \in Sessions : ContextReadFails(s)
    \/ \E s \in Sessions : SendPrimary(s)
    \/ \E s \in Sessions : PrimaryFailed(s)
    \/ \E s \in Sessions : ApologyStoreFails(s)
    \/ \E s \in Sessions : PrimaryResponse(s)
    \/ \E s \in Sessions : PrimaryResponseEmpty(s)
    \/ \E s \in Sessions : RecCheck(s)
    \/ \E s \in Sessions : RecSpend(s)
    \/ \E s \in Sessions : RecWrite(s)
    \/ \E s \in Sessions : LedgerFails(s)
    \/ \E s \in Sessions : AssistantStoreFails(s)
    \/ \E s \in Sessions : ExecuteTools(s)
    \/ \E s \in Sessions : SendContinuation(s)
    \/ \E s \in Sessions : ContinuationFailed(s)
    \/ \E s \in Sessions : ContinuationResponse(s)

SpecChat == InitChat /\ [][NextChat]_vars

\* -------------------------------------------- one batch of tool calls alone
\* _handle_tool_calls run on one batch of tool calls, step by step, and what
\* the turn returns for it.  The store is reliable here.
InitTools ==
    /\ CoreAtRest
    /\ ChatAtRest /\ PoisAtRest /\ ItinAtRest /\ ParseAtRest
    /\ HotelsAtRest /\ ContextAtRest
    /\ tc \in {[NoBatch EXCEPT !.calls = calls, !.i = 1, !.status = "loop"] :
                    calls \in CallBatches}

\* One pass of the loop over tool_calls.  An exception that leaves the loop
\* leaves _handle_tool_calls and is caught in _call_llm_with_tools.
NextToolCall ==
    /\ tc.status = "loop"
    /\ tc.i <= Len(tc.calls)
    /\ tc' = IF CallRaises(tc.calls[tc.i])
             THEN [tc EXCEPT !.status = "failed"]
             ELSE [tc EXCEPT !.results = @ \o ResultsOfCall(tc.calls[tc.i]),
                             !.i = @ + 1]
    /\ UNCHANGED <<corevars, raised, http, hotel, ctx, poi, itin, parse>>

\* After the loop: the response text is generated and the continuation
\* decided; when it is taken the tool summary is written first.
DecideContinuation ==
    /\ tc.status = "loop"
    /\ tc.i > Len(tc.calls)
    /\ tc' = IF needs_continuation(tc.results)
             THEN IF generate_tool_summary_for_llm(tc.results) = "AttributeError"
                  THEN [tc EXCEPT !.status = "failed"]
                  ELSE [tc EXCEPT !.status = "continuation"]
             ELSE [tc EXCEPT !.status = "returned",
                             !.rendered = generate_tool_response(tc.results)]
    /\ UNCHANGED <<corevars, raised, http, hotel, ctx, poi, itin, parse>>

\* the follow-up request is answered, or fails and the default text is used
FollowUp ==
    /\ tc.status = "continuation"
    /\ \E answered \in BOOLEAN :
        tc' = [tc EXCEPT !.status = "returned",
                         !.continued = TRUE,
                         !.rendered = IF answered THEN <<"follow_up">>
                                      ELSE <<"ready_to_help">>]
    /\ UNCHANGED <<corevars, raised, http, hotel, ctx, poi, itin, parse>>

\* process_chat_message returns: success is that of _call_llm_with_tools,
\* the itinerary_id that of _handle_tool_calls, or None without success
FinishTurn ==
    /\ tc.status \in {"failed", "returned"}
    /\ tc' = [tc EXCEPT !.status = "done",
                        !.success = (tc.status = "returned"),
                        !.rendered = IF tc.status = "failed"
                                     THEN <<"llm_error">> ELSE @,
                        !.itinerary_id =
                            IF tc.status = "failed" THEN NoItinerary
                            ELSE LastItinerary(tc.results, Len(tc.results))]
    /\ UNCHANGED <<corevars, raised, http, hotel, ctx, poi, itin, parse>>

NextTools ==
    \/ NextToolCall
    \/ DecideContinuation
    \/ FollowUp
    \/ FinishTurn

SpecTools == InitTools /\ [][NextTools]_vars

\* ------------------------------------------ search_pois and the POI provider
\* The search_pois action over OpenTripMapClient, and the two operations of
\* the client called directly.  The api cache outlives a call.

\* "" is the empty or missing city, "paris" a city of the coordinate table,
\* "atlantis" one that the table lacks
Cities == {"", "paris", "atlantis"}

get_city_coordinates_always(city) == TRUE

\* city_coords.get(city.lower()) is not None
get_city_coordinates(city) == city = "paris"

\* the cache entry that an operation of the client reads and writes
Endpoint(op) == IF op = "get_place_details" THEN "place_details" ELSE "radius_search"

\* the ActionResult of search_pois for the list that the provider returned,
\* which is empty when the provider was not called or raised
SearchPoisResult(count) ==
    [returned |-> TRUE, success |-> TRUE, count |-> count,
     use_llm_knowledge |-> (count = 0), api_success |-> (count > 0)]

\* What is kept of the radius search that has just ended when the next
\* operation is called: whether it fetched from upstream and wrote the cache
\* entry, and the places it returned.  A search that made no request leaves
\* what was kept of the one before it.
EarlierSearch ==
    IF poi.op # None /\ Endpoint(poi.op) = "radius_search" /\ poi.requests > 0
    THEN [fetched |-> poi.written, places |-> poi.places]
    ELSE poi.earlier

\* search_pois is called: an empty city is rejected, a city without
\* coordinates gives the empty result without a call of the provider, and
\* for the others search_places_by_radius is entered
SearchPois ==
    /\ poi.status \in {"idle", "done"}
    /\ poi.left > 0
    /\ \E city \in Cities :
        poi' = [poi EXCEPT
                    !.op = "search_pois", !.city = city, !.left = @ - 1,
                    !.provider = None, !.places = 0,
                    !.requests = 0, !.written = FALSE, !.expired = FALSE,
                    !.earlier = EarlierSearch,
                    !.provider_calls = IF city # "" /\ get_city_coordinates(city)
                                       THEN 1 ELSE 0,
                    !.status = IF city # "" /\ get_city_coordinates(city)
                               THEN "lookup" ELSE "done",
                    !.action = IF city = ""
                               THEN [NoPoiResult EXCEPT !.returned = TRUE]
                               ELSE IF get_city_coordinates(city)
                               THEN NoPoiResult
                               ELSE SearchPoisResult(0)]
    /\ UNCHANGED <<corevars, raised, http, hotel, ctx, tc, itin, parse>>

\* search_places_by_radius or get_place_details is called by another caller
CallProvider ==
    /\ poi.status \in {"idle", "done"}
    /\ poi.left > 0
    /\ \E op \in {"search_places_by_radius", "get_place_details"} :
        poi' = [poi EXCEPT
                    !.op = op, !.city = None, !.left = @ - 1,
                    !.provider = None, !.places = 0, !.provider_calls = 1,
                    !.requests = 0, !.written = FALSE, !.expired = FALSE,
                    !.earlier = EarlierSearch,
                    !.status = "lookup", !.action = NoPoiResult]
    /\ UNCHANGED <<corevars, raised, http, hotel, ctx, tc, itin, parse>>

\* the operation of the client returns places (for get_place_details: 1 is a
\* place, 0 is None); search_pois wraps the list in its result
ProviderReturns(places) ==
    [poi EXCEPT !.status = "done", !.provider = "returned", !.places = places,
                !.action = IF poi.op = "search_pois"
                           THEN SearchPoisResult(places) ELSE NoPoiResult]

\* an exception leaves the operation of the client; search_pois catches it
\* and goes on with the empty list
ProviderRaises ==
    [poi EXCEPT !.status = "done", !.provider = "raised", !.places = 0,
                !.action = IF poi.op = "search_pois"
                           THEN SearchPoisResult(0) ELSE NoPoiResult]

\* get_cached_response, before the try block of the operation: the query
\* fails, or finds a fresh entry, or finds none, or finds an expired one and
\* deletes it
CacheLookup ==
    /\ poi.status = "lookup"
    /\ LET entry == poi.cache[Endpoint(poi.op)] IN
        \/ poi' = ProviderRaises
        \/ /\ entry # NoValue
           /\ poi' = ProviderReturns(entry)
        \/ /\ entry = NoValue
           /\ poi' = [poi EXCEPT !.status = "fetch"]
        \/ /\ entry # NoValue
           /\ poi' = [poi EXCEPT !.status = "fetch", !.expired = TRUE,
                                 !.cache[Endpoint(poi.op)] = NoValue]
    /\ UNCHANGED <<corevars, raised, http, hotel, ctx, tc, itin, parse>>

\* the HTTP request of the operation: a network error or a non-2xx status, a
\* body that is not JSON, or a body that normalizes to some places
Fetch ==
    /\ poi.status = "fetch"
    /\ \/ \E failure \in {"http_error", "not_json"} :
            poi' = [ProviderReturns(0) EXCEPT !.requests = @ + 1]
       \/ \E places \in 0..MaxPlaces :
            /\ poi.op = "get_place_details" => places <= 1
            /\ poi' = [poi EXCEPT !.status = "write", !.places = places,
                                  !.requests = @ + 1]
    /\ UNCHANGED <<corevars, raised, http, hotel, ctx, tc, itin, parse>>

\* cache_response in its own try block: the entry is written, or the write
\* fails and the failure is logged.  An empty radius search goes on to the
\* JSON fallback request.
CacheWrite ==
    /\ poi.status = "write"
    /\ \E written \in BOOLEAN :
        LET cache == IF written
                     THEN [poi.cache EXCEPT ![Endpoint(poi.op)] = poi.places]
                     ELSE poi.cache
        IN poi' = IF poi.op # "get_place_details" /\ poi.places = 0
                  THEN [poi EXCEPT !.status = "fallback", !.cache = cache,
                                   !.written = written]
                  ELSE [ProviderReturns(poi.places) EXCEPT !.cache = cache,
                                                           !.written = written]
    /\ UNCHANGED <<corevars, raised, http, hotel, ctx, tc, itin, parse>>

\* the fallback request with format json, in its own try block; its cache
\* entry has other parameters than the lookup and is never read
Fallback ==
    /\ poi.status = "fallback"
    /\ \E places \in 0..MaxPlaces :
        poi' = [ProviderReturns(places) EXCEPT !.requests = @ + 1]
    /\ UNCHANGED <<corevars, raised, http, hotel, ctx, tc, itin, parse>>

InitPois ==
    /\ CoreAtRest
    /\ ChatAtRest /\ ToolsAtRest /\ ItinAtRest /\ ParseAtRest
    /\ HotelsAtRest /\ ContextAtRest
    /\ poi = [NoSearch EXCEPT !.left = MaxSearches]

NextPois ==
    \/ SearchPois
    \/ CallProvider
    \/ CacheLookup
    \/ Fetch
    \/ CacheWrite
    \/ Fallback

SpecPois == InitPois /\ [][NextPois]_vars

\* ------------------------------------------ finalize_itinerary and the export
\* _finalize_itinerary_action over ItineraryRepository, every create of which
\* commits, and the export endpoint that reads one itinerary back.  Strings
\* are sequences of characters.

\* a date string that strptime("%Y-%m-%d") accepts, one that it rejects with
\* ValueError, and the empty or missing one
DateStrings == {"valid", "unparsable", ""}

\* day_index values of the day objects
DayIndexes == {0, 1}

\* An activity of a day object.  visit has a name and notes, bare has a name
\* only, dashes has a name and notes with separators at their ends, bad_type
\* has a type that the check constraint of itinerary_items rejects.
ActivityKinds == {"visit", "bare", "dashes", "bad_type"}

Activity(kind) ==
    CASE kind = "visit" -> [type |-> "poi", name |-> <<"a">>, notes |-> <<"b">>]
      [] kind = "bare" -> [type |-> "meal", name |-> <<"a">>, notes |-> <<>>]
      [] kind = "dashes" ->
            [type |-> "poi", name |-> <<"-", "a">>, notes |-> <<"b", " ">>]
      [] kind = "bad_type" ->
            [type |-> "activity", name |-> <<"a">>, notes |-> <<"b">>]

ItemTypes == {"poi", "hotel", "meal", "transit"}

\* the characters that strip(' -') removes
StripChars == {" ", "-"}

RECURSIVE lstrip(_)
lstrip(s) ==
    IF s = <<>> THEN <<>>
    ELSE IF Head(s) \in StripChars THEN lstrip(Tail(s)) ELSE s

RECURSIVE rstrip(_)
rstrip(s) ==
    IF s = <<>> THEN <<>>
    ELSE IF s[Len(s)] \in StripChars THEN rstrip(SubSeq(s, 1, Len(s) - 1)) ELSE s

strip_left_only(s) == lstrip(s)

strip(s) == rstrip(lstrip(s))

\* f"{activity.get('name', '')} - {activity.get('notes', '')}".strip(' -')
item_notes(activity) ==
    strip(activity.name \o <<" ", "-", " ">> \o activity.notes)

ValidateArguments_dates_unchecked(city, start_date, end_date, n_days) ==
    IF city = "" \/ start_date = "" \/ end_date = "" \/ n_days = 0
    THEN "missing_fields"
    ELSE None

\* The checks of the arguments before the first write: the error they end
\* with, or None.  not all([city, start_date, end_date, days]) comes first,
\* then the two dates are parsed.
ValidateArguments(city, start_date, end_date, n_days) ==
    IF city = "" \/ start_date = "" \/ end_date = "" \/ n_days = 0
    THEN "missing_fields"
    ELSE IF start_date = "unparsable" \/ end_date = "unparsable"
    THEN "invalid_date_format"
    ELSE None

\* finalize_itinerary is called: the arguments are checked and the itinerary
\* row is created and committed, unless the store fails
FinalizeBegin ==
    /\ itin.status = "idle"
    /\ \E city \in {"", "paris"}, start_date \in DateStrings,
          end_date \in DateStrings, n_days \in 0..MaxDays, stored \in BOOLEAN :
        LET error == ValidateArguments(city, start_date, end_date, n_days)
            called == [itin EXCEPT !.city = city, !.start_date = start_date,
                                   !.end_date = end_date, !.n_days = n_days]
        IN itin' = IF error # None
                   THEN [called EXCEPT !.status = "returned", !.error = error]
                   ELSE IF ~stored
                   THEN [called EXCEPT !.status = "returned",
                                       !.error = "storage_error"]
                   ELSE [called EXCEPT !.status = "days", !.itineraries = @ + 1]
    /\ UNCHANGED <<corevars, raised, http, hotel, ctx, tc, poi, parse>>

\* The day objects read so far are itin.days, each with the activities read
\* so far.  The loop over the activities of the last one has ended.
DayComplete ==
    IF itin.days = <<>> THEN TRUE
    ELSE Len(itin.days[Len(itin.days)].activities)
            = itin.days[Len(itin.days)].n_activities

\* The next day object: its date is parsed, then the day row is created and
\* committed.  A second row with the same day_index violates the unique
\* constraint of itinerary_days.
FinalizeDay ==
    /\ itin.status = "days"
    /\ DayComplete
    /\ Len(itin.days) < itin.n_days
    /\ \E day_index \in DayIndexes, date \in {"valid", "unparsable"},
          n_activities \in 0..MaxActivities, stored \in BOOLEAN :
        LET day_data == [day_index |-> day_index, date |-> date,
                         n_activities |-> n_activities, activities |-> <<>>]
            read == [itin EXCEPT !.days = Append(@, day_data)]
        IN itin' =
            IF date = "unparsable"
            THEN [read EXCEPT !.status = "returned",
                              !.error = "invalid_date_format"]
            ELSE IF \/ ~stored
                    \/ \E i \in DOMAIN itin.day_rows :
                            itin.day_rows[i].day_index = day_index
            THEN [read EXCEPT !.status = "returned", !.error = "storage_error"]
            ELSE [read EXCEPT !.day_rows = Append(@, [day_index |-> day_index])]
    /\ UNCHANGED <<corevars, raised, http, hotel, ctx, tc, poi, parse>>

\* the next activity of the day: its item row is created and committed
FinalizeItem ==
    /\ itin.status = "days"
    /\ ~DayComplete
    /\ \E kind \in ActivityKinds, stored \in BOOLEAN :
        LET activity == Activity(kind)
            read == [itin EXCEPT
                        !.days[Len(itin.days)].activities = Append(@, kind)]
        IN itin' =
            IF ~stored \/ activity.type \notin ItemTypes
            THEN [read EXCEPT !.status = "returned", !.error = "storage_error"]
            ELSE [read EXCEPT
                    !.item_rows = Append(@, [day |-> Len(itin.day_rows),
                                             notes |-> item_notes(activity)])]
    /\ UNCHANGED <<corevars, raised, http, hotel, ctx, tc, poi, parse>>

\* every day object is written: the action returns success with
\* days_count = len(days_data)
FinalizeReturn ==
    /\ itin.status = "days"
    /\ DayComplete
    /\ Len(itin.days) = itin.n_days
    /\ itin' = [itin EXCEPT !.status = "returned", !.success = TRUE,
                            !.days_count = itin.n_days]
    /\ UNCHANGED <<corevars, raised, http, hotel, ctx, tc, poi, parse>>

\* the positions of the day rows, in the order of sorted(key=day_index)
SortedDays ==
    CHOOSE order \in [DOMAIN itin.day_rows -> DOMAIN itin.day_rows] :
        /\ \A i, j \in DOMAIN order : i # j => order[i] # order[j]
        /\ \A i, j \in DOMAIN order :
            i < j => itin.day_rows[order[i]].day_index
                        <= itin.day_rows[order[j]].day_index

\* the orders in which a query without ORDER BY may list n rows
RowOrders(n) ==
    {order \in [1..n -> 1..n] : \A i, j \in 1..n : i # j => order[i] # order[j]}

\* The export of the itinerary that a successful finalize_itinerary named:
\* its days sorted by day_index, each with the notes of its items in the
\* order in which the relationship lists them.
ExportItinerary ==
    /\ itin.status = "returned"
    /\ itin.success
    /\ LET ItemsOf(d) == SelectSeq(itin.item_rows, LAMBDA row : row.day = d) IN
       \E orders \in [DOMAIN itin.day_rows ->
                        UNION {RowOrders(n) : n \in 0..MaxActivities}] :
        /\ \A d \in DOMAIN itin.day_rows :
                orders[d] \in RowOrders(Len(ItemsOf(d)))
        /\ itin' = [itin EXCEPT
                        !.status = "exported",
                        !.export =
                            [k \in DOMAIN itin.day_rows |->
                                LET d == SortedDays[k] IN
                                [day_index |-> itin.day_rows[d].day_index,
                                 items |-> [i \in DOMAIN ItemsOf(d) |->
                                                ItemsOf(d)[orders[d][i]].notes]]]]
    /\ UNCHANGED <<corevars, raised, http, hotel, ctx, tc, poi, parse>>

InitItinerary ==
    /\ CoreAtRest
    /\ ChatAtRest /\ ToolsAtRest /\ PoisAtRest /\ ParseAtRest
    /\ HotelsAtRest /\ ContextAtRest
    /\ itin = NoFinalize

NextItinerary ==
    \/ FinalizeBegin
    \/ FinalizeDay
    \/ FinalizeItem
    \/ FinalizeReturn
    \/ ExportItinerary

SpecItinerary == InitItinerary /\ [][NextItinerary]_vars

\* ------------------------------------------------- _parse_pseudo_tool_calls
\* The text is a sequence of characters; "A" stands for the word action in
\* any case, "x" for any other character.

\* the pieces a text is made of
Chunks ==
    {<<"[", "A", "]">>, <<"x">>, <<"{">>, <<"}">>, <<"[">>, <<"]">>, <<"A">>}

RECURSIVE Flatten(_)
Flatten(pieces) ==
    IF pieces = <<>> THEN <<>> ELSE Head(pieces) \o Flatten(Tail(pieces))

Texts ==
    {Flatten(pieces) : pieces \in UNION {[1..n -> Chunks] : n \in 0..MaxSegments}}

\* re.match of \[[^\]]*action[^\]]*\] at position p: the position after the
\* match, or 0.  [^\]]* crosses no "]", so the match ends at the first "]"
\* after p, and the word has to lie before it.
MatchAt(content, p) ==
    LET closes == {q \in p + 1..Len(content) : content[q] = "]"} IN
    IF content[p] # "[" \/ closes = {} THEN 0
    ELSE LET q == CHOOSE c \in closes : \A d \in closes : c <= d IN
         IF \E i \in p + 1..q - 1 : content[i] = "A" THEN q + 1 ELSE 0

NoMatch == [start |-> 0, end |-> 0]

\* pattern.search(content, pos): the leftmost match from pos on
RECURSIVE search(_, _)
search(content, pos) ==
    IF pos > Len(content) THEN NoMatch
    ELSE IF MatchAt(content, pos) # 0
    THEN [start |-> pos, end |-> MatchAt(content, pos)]
    ELSE search(content, pos + 1)

\* pattern.finditer(content): the matches from left to right, each search
\* starting where the previous match ended
RECURSIVE finditer(_, _)
finditer(content, pos) ==
    LET m == search(content, pos) IN
    IF m = NoMatch THEN <<>> ELSE <<m>> \o finditer(content, m.end)

\* content.find(ch, pos): the first position of ch from pos on, or 0
RECURSIVE find(_, _, _)
find(content, ch, pos) ==
    IF pos > Len(content) THEN 0
    ELSE IF content[pos] = ch THEN pos
    ELSE find(content, ch, pos + 1)

RECURSIVE scan_first_close(_, _, _)
scan_first_close(content, i, depth) == find(content, "}", i)

\* the while loop over the braces: the position of the "}" that brings the
\* depth back to 0, or 0 when the text ends first
RECURSIVE scan(_, _, _)
scan(content, i, depth) ==
    IF i > Len(content) THEN 0
    ELSE IF content[i] = "{" THEN scan(content, i + 1, depth + 1)
    ELSE IF content[i] = "}"
    THEN IF depth - 1 = 0 THEN i ELSE scan(content, i + 1, depth - 1)
    ELSE scan(content, i + 1, depth)

\* the body of the for loop: the calls that one match appends
CallsOfMatch(content, m) ==
    LET brace_start == find(content, "{", m.end) IN
    IF brace_start = 0 THEN <<>>
    ELSE LET i == scan(content, brace_start, 0) IN
         IF i = 0 THEN <<>>
         ELSE <<[name |-> "execute_travel_action",
                 arguments |-> SubSeq(content, brace_start, i)]>>

RECURSIVE CallsOfMatches(_, _)
CallsOfMatches(content, matches) ==
    IF matches = <<>> THEN <<>>
    ELSE CallsOfMatch(content, Head(matches))
            \o CallsOfMatches(content, Tail(matches))

\* (tool_calls, preface_text); none says that tool_calls is None
parse_pseudo_tool_calls(content) ==
    LET first_match == search(content, 1) IN
    IF first_match = NoMatch
    THEN [none |-> TRUE, calls |-> <<>>, preface |-> <<>>]
    ELSE LET preface == SubSeq(content, 1, first_match.start - 1)
             calls == CallsOfMatches(content, finditer(content, 1))
         IN [none |-> calls = <<>>, calls |-> calls, preface |-> preface]

ParsePseudoToolCalls ==
    /\ ~parse.parsed
    /\ LET returned == parse_pseudo_tool_calls(parse.content)
       IN parse' = [parse EXCEPT !.parsed = TRUE,
                                 !.none = returned.none,
                                 !.calls = returned.calls,
                                 !.preface = returned.preface]
    /\ UNCHANGED <<corevars, raised, http, hotel, ctx, tc, poi, itin>>

InitParse ==
    /\ CoreAtRest
    /\ ChatAtRest /\ ToolsAtRest /\ PoisAtRest /\ ItinAtRest
    /\ HotelsAtRest /\ ContextAtRest
    /\ \E content \in Texts : parse = [NoParse EXCEPT !.content = content]

NextParse == ParsePseudoToolCalls

SpecParse == InitParse /\ [][NextParse]_vars

\* ------------------------------------------------------- the hotel providers
\* search_hotels of StaticStubHotelProvider and of RapidAPIHotelProvider, by
\* the number of hotels at every stage.  The api cache outlives a call; every
\* search has the same city, country and budget tier, so the same cache entry.

HotelProviders == {"stub", "rapidapi"}

Min(a, b) == IF a <= b THEN a ELSE b

\* results[:limit], and query.limit(limit).all()
FirstOf(n, limit) == Min(n, limit)

\* search_hotels is called.  The stub provider answers from the hotels table
\* with LIMIT :limit.  The RapidAPI provider returns [] without an api key and
\* searches the location otherwise.
SearchHotels ==
    /\ hotel.status \in {"idle", "done"}
    /\ hotel.left > 0
    /\ \E provider \in HotelProviders, limit \in 0..MaxLimit,
          matching \in 0..MaxHotels, api_key \in BOOLEAN :
        LET called == [hotel EXCEPT !.left = @ - 1, !.provider = provider,
                                    !.limit = limit, !.hotels_data = 0,
                                    !.from_cache = FALSE, !.returned = 0]
        IN hotel' =
            IF provider = "stub"
            THEN [called EXCEPT !.status = "done",
                                !.returned = FirstOf(matching, limit)]
            ELSE IF ~api_key
            THEN [called EXCEPT !.status = "done"]
            ELSE [called EXCEPT !.status = "location"]
    /\ UNCHANGED <<corevars, raised, http, tc, poi, itin, parse, ctx>>

\* _search_location: no location or no dest_id ends the search with []
SearchLocation ==
    /\ hotel.status = "location"
    /\ \E dest_id \in BOOLEAN :
        hotel' = [hotel EXCEPT !.status = IF dest_id THEN "lookup" ELSE "done"]
    /\ UNCHANGED <<corevars, raised, http, tc, poi, itin, parse, ctx>>

\* get_cached_response of _search_hotels_by_destination: a fresh entry is
\* returned as it is, cached.get("result", []); an expired one is deleted
HotelsCacheLookup ==
    /\ hotel.status = "lookup"
    /\ \/ /\ hotel.cache # NoValue
          /\ hotel' = [hotel EXCEPT !.status = "normalize",
                                    !.from_cache = TRUE,
                                    !.hotels_data = hotel.cache]
       \/ /\ hotel.cache = NoValue
          /\ hotel' = [hotel EXCEPT !.status = "fetch"]
       \/ /\ hotel.cache # NoValue
          /\ hotel' = [hotel EXCEPT !.status = "fetch", !.cache = NoValue]
    /\ UNCHANGED <<corevars, raised, http, tc, poi, itin, parse, ctx>>

\* The request of /hotels/search.  A failed request, and a failed write of the
\* cache entry, end in an except clause that returns []; otherwise the whole
\* response is cached and results[:limit] returned.
HotelsFetch ==
    /\ hotel.status = "fetch"
    /\ \/ hotel' = [hotel EXCEPT !.status = "normalize", !.hotels_data = 0]
       \/ \E results \in 0..MaxHotels :
            hotel' = [hotel EXCEPT !.status = "normalize",
                                   !.cache = results,
                                   !.hotels_data = FirstOf(results, hotel.limit)]
    /\ UNCHANGED <<corevars, raised, http, tc, poi, itin, parse, ctx>>

\* _normalize_hotels: a hotel whose normalization raises is left out
NormalizeHotels ==
    /\ hotel.status = "normalize"
    /\ \E normalized \in 0..hotel.hotels_data :
        hotel' = [hotel EXCEPT !.status = "done", !.returned = normalized]
    /\ UNCHANGED <<corevars, raised, http, tc, poi, itin, parse, ctx>>

InitHotels ==
    /\ CoreAtRest
    /\ ChatAtRest /\ ToolsAtRest /\ PoisAtRest /\ ItinAtRest /\ ParseAtRest
    /\ ContextAtRest
    /\ hotel = [NoHotelSearch EXCEPT !.left = MaxHotelCalls]

NextHotels ==
    \/ SearchHotels
    \/ SearchLocation
    \/ HotelsCacheLookup
    \/ HotelsFetch
    \/ NormalizeHotels

SpecHotels == InitHotels /\ [][NextHotels]_vars

\* ------------------------------------------------ the contexts of a turn
\* The messages of one session and the message lists sent to the LLM.  A
\* stored message is [id, role, content], its id its position in the order
\* of created_at.  An entry of a context is [role, content, id]: the id of
\* the stored message it was copied from, 0 for an entry that was not copied
\* from the store.

MessageTexts == {"a", "b"}

HistoryLimit == 10
ContinuationLimit == 8

\* get_recent_messages: ORDER BY created_at DESC LIMIT :limit
get_recent_messages(stored, limit) ==
    [i \in 1..Min(limit, Len(stored)) |-> stored[Len(stored) - i + 1]]

reversed(seq) == [i \in 1..Len(seq) |-> seq[Len(seq) - i + 1]]

ChatRole(msg) == msg.role \in {"user", "assistant"}

\* for msg in reversed(...): if msg.role in ["user", "assistant"]: append
HistoryEntries(recent) ==
    LET kept == SelectSeq(reversed(recent), ChatRole)
    IN [i \in 1..Len(kept) |->
            [role |-> kept[i].role, content |-> kept[i].content,
             id |-> kept[i].id]]

SystemEntry(content) == [role |-> "system", content |-> content, id |-> 0]

\* the system prompt, and the context block when the form gave any field
ContextHead(form_context) ==
    <<SystemEntry("system_prompt")>>
        \o (IF form_context THEN <<SystemEntry("context")>> ELSE <<>>)

\* _build_conversation_context
build_conversation_context(stored, current_message, form_context) ==
    ContextHead(form_context)
        \o HistoryEntries(get_recent_messages(stored, HistoryLimit))
        \o <<[role |-> "user", content |-> current_message, id |-> 0]>>

\* conversation_context of _handle_tool_calls
continuation_context(stored, form_context) ==
    ContextHead(form_context)
        \o <<SystemEntry("tool_results")>>
        \o HistoryEntries(get_recent_messages(stored, ContinuationLimit))

\* create_message: the new message is the latest of the session
create_message(stored, role, content) ==
    Append(stored, [id |-> Len(stored) + 1, role |-> role, content |-> content])

\* process_chat_message stores the user message
StoreUserMessage ==
    /\ ctx.status = "idle"
    /\ ctx.turns < MaxChats
    /\ \E user_message \in MessageTexts, form_context \in BOOLEAN :
        ctx' = [ctx EXCEPT !.status = "stored",
                           !.turns = @ + 1,
                           !.stored = create_message(@, "user", user_message),
                           !.current_message = user_message,
                           !.form_context = form_context,
                           !.primary = <<>>,
                           !.continuation = <<>>]
    /\ UNCHANGED <<corevars, raised, http, tc, poi, itin, parse, hotel>>

\* ... and builds the messages of the primary request
BuildConversationContext ==
    /\ ctx.status = "stored"
    /\ ctx' = [ctx EXCEPT !.status = "primary",
                          !.primary = build_conversation_context(
                                ctx.stored, ctx.current_message,
                                ctx.form_context)]
    /\ UNCHANGED <<corevars, raised, http, tc, poi, itin, parse, hotel>>

\* _handle_tool_calls builds the messages of the continuation request
BuildContinuationContext ==
    /\ ctx.status = "primary"
    /\ ctx' = [ctx EXCEPT !.status = "continuation",
                          !.continuation = continuation_context(
                                ctx.stored, ctx.form_context)]
    /\ UNCHANGED <<corevars, raised, http, tc, poi, itin, parse, hotel>>

\* process_chat_message stores the assistant message and returns
StoreAssistantMessage ==
    /\ ctx.status \in {"primary", "continuation"}
    /\ ctx' = [ctx EXCEPT !.status = "idle",
                          !.stored = create_message(@, "assistant", "reply")]
    /\ UNCHANGED <<corevars, raised, http, tc, poi, itin, parse, hotel>>

InitContext ==
    /\ CoreAtRest
    /\ ChatAtRest /\ ToolsAtRest /\ PoisAtRest /\ ItinAtRest /\ ParseAtRest
    /\ HotelsAtRest
    /\ ctx = NoContext

NextContext ==
    \/ StoreUserMessage
    \/ BuildConversationContext
    \/ BuildContinuationContext
    \/ StoreAssistantMessage

SpecContext == InitContext /\ [][NextContext]_vars

\* =================================================================== claims
\* the sum of cost_usd over the rows of one month, counted row by row
RECURSIVE TotalUpTo(_, _, _)
TotalUpTo(rows, month_key, i) ==
    IF i = 0 THEN 0
    ELSE TotalUpTo(rows, month_key, i - 1)
            + (IF rows[i].month_key = month_key THEN rows[i].cost_usd ELSE 0)

MonthTotal(rows, month_key) == TotalUpTo(rows, month_key, Len(rows))

RowsOf(s) == Cardinality({i \in DOMAIN ledger : ledger[i].session_id = s})

Recording(s) == pc[s] \in {"rec_check", "rec_spend", "rec_write"}

\* session s starts a turn in this step
TurnStarts(s) == pc[s] = "idle" /\ budget' < budget /\ messages'[s] # messages[s]

\* session s completes a record_llm_call in this step
RecordCompletes(s) == pc[s] = "rec_write" /\ pc'[s] # "rec_write"

\* C1: a turn that starts while the current month's total is at or over the
\* cap returns success false, spend_capped true and no itinerary, appends the
\* user message and then the fallback message and nothing else, sends no LLM
\* request, and leaves the ledger as it was; the turn is over in that step,
\* so it executes no tool.
C1_CappedTurn ==
    [][\A s \in Sessions :
        (TurnStarts(s) /\ MonthTotal(ledger, now) >= cap) =>
            /\ result'[s] = Result("cap_fallback", FALSE, TRUE, NoItinerary)
            /\ messages'[s] = messages[s] \o <<UserMessage, FallbackMessage>>
            /\ ledger' = ledger
            /\ hist' = hist
            /\ pc'[s] = "idle"]_vars

C1_Witness ==
    \E s \in Sessions :
        /\ result[s].spend_capped
        /\ cap > 0
        /\ MonthTotal(ledger, now) >= cap
        /\ Len(messages[s]) >= 2
        /\ messages[s][Len(messages[s])] = FallbackMessage

\* C2: no LLM request is sent, primary or continuation, in a state where the
\* current month's total is at or over the cap.
C2_NoCallOverCap ==
    [][\A s \in Sessions :
        hist'[s].sent > hist[s].sent => MonthTotal(ledger, now) < cap]_vars

NewRow == ledger'[Len(ledger')]

ExpectedCost(l) ==
    IF l.actual_cost_usd = NoValue
    THEN estimate_call_cost(l.model, l.prompt_tokens, l.completion_tokens)
    ELSE l.actual_cost_usd

OneRowAppended(s) ==
    /\ Len(ledger') = Len(ledger) + 1
    /\ SubSeq(ledger', 1, Len(ledger)) = ledger
    /\ NewRow.session_id = s
    /\ NewRow.cost_usd = ExpectedCost(loc[s])

FlagMatchesTotalBeforeWrite ==
    NewRow.blocked_after =
        (/\ MonthTotal(ledger, NewRow.month_key) < cap
         /\ MonthTotal(ledger, NewRow.month_key) + NewRow.cost_usd >= cap)

\* C4 as stated: record_llm_call appends exactly one row, whose cost is the
\* actual cost when given and the estimate otherwise, and whose blocked_after
\* is true iff the month's total before the write was below the cap and that
\* total plus the cost is at or over it.
C4_FlagFromTotalBeforeWrite ==
    [][\A s \in Sessions :
        RecordCompletes(s) => OneRowAppended(s) /\ FlagMatchesTotalBeforeWrite]_vars

\* C4 as amended: the same, the flag being decided by the totals that
\* record_llm_call read; it is the total before the write when no other row was
\* written and the month did not change since record_llm_call was entered.
C4_FlagFromTotalRead ==
    [][\A s \in Sessions :
        RecordCompletes(s) =>
            /\ OneRowAppended(s)
            /\ (loc[s].begin_rows = Len(ledger) /\ loc[s].begin_month = now)
                    => FlagMatchesTotalBeforeWrite]_vars

C4_Witness ==
    \E i, j \in DOMAIN ledger :
        /\ ledger[i].blocked_after
        /\ ledger[i].model = "gpt-4-turbo"
        /\ ledger[i].cost_usd = 200
        /\ ~ledger[j].blocked_after
        /\ ledger[j].model = "other"
        /\ ledger[j].cost_usd = estimate_call_cost("gpt-4", ledger[j].prompt_tokens,
                                                   ledger[j].completion_tokens)

\* C5: the month's total exceeds the cap by no more than the sum of the costs
\* of the calls that were in flight when the total reached the cap (once all
\* of them are settled).
C5_OvershootWithinFlight ==
    \A m \in Months :
        (crossing[m].reached /\ crossing[m].flight = {}) =>
            MonthTotal(ledger, m) - cap <= crossing[m].cost

\* two sessions both passed the cap check, both were answered and both wrote
C5_BothWrote ==
    /\ cap > 0
    /\ MonthTotal(ledger, now) > cap
    /\ \A s \in Sessions :
        /\ RowsOf(s) = 1
        /\ hist[s].sent = 1
        /\ Len(messages[s]) >= 1
        /\ \A i \in DOMAIN messages[s] : messages[s][i] # FallbackMessage

\* C6: for every month, the spent_usd of the status is the sum of cost_usd
\* over the rows of that month, and a step that appends a row to one month
\* adds its cost to that month and leaves every other month's spent_usd as
\* it was.
C6_SpentIsMonthSum ==
    [][\A m \in Months :
        /\ get_spend_status(ledger', m).spent_usd = MonthTotal(ledger', m)
        /\ Len(ledger') = Len(ledger) + 1 =>
            get_spend_status(ledger', m).spent_usd =
                get_spend_status(ledger, m).spent_usd
                    + (IF NewRow.month_key = m THEN NewRow.cost_usd ELSE 0)]_vars

C6_Witness ==
    \E i, j \in DOMAIN ledger :
        /\ ledger[i].month_key < ledger[j].month_key
        /\ ledger[i].cost_usd > 0
        /\ get_spend_status(ledger, ledger[j].month_key).spent_usd = ledger[j].cost_usd

\* C7 as stated: a read of is_exceeded that follows a read of is_exceeded
\* with the same argument, no row having been written between the two,
\* returns what the first returned.
C7_SameResult ==
    (probe.op = "is_exceeded" /\ probe.prior) => probe.flag = probe.prior_flag

\* C7 as amended: the read operations leave the ledger as it is, and a read
\* that repeats the previous one with no row written in between returns the
\* same value, provided both are about the same month: the month was given,
\* or the current month did not change between them.
C7_SameResultSameMonth ==
    [][/\ probe' # probe => ledger' = ledger
       /\ (/\ probe'.prior
           /\ (probe'.month_key # NoValue \/ probe'.prior_clock = probe'.clock))
            => /\ probe'.flag = probe'.prior_flag
               /\ probe'.amount = probe'.prior_amount]_vars

C7_Witness ==
    /\ probe.op = "is_exceeded"
    /\ probe.prior
    /\ probe.flag
    /\ probe.month_key = NoValue
    /\ probe.rows >= 1
    /\ \E s \in Sessions : Recording(s)

\* C8: for every month, remaining_budget is max(0, cap - spent): never
\* negative, 0 exactly when is_exceeded is true, and equal to the
\* remaining_usd of the status.
C8_RemainingBudget ==
    \A m \in Months :
        LET remaining == get_remaining_budget(ledger, m)
            left == cap - MonthTotal(ledger, m)
        IN /\ remaining >= 0
           /\ remaining = (IF left > 0 THEN left ELSE 0)
           /\ (remaining = 0) <=> is_spend_cap_exceeded(ledger, m)
           /\ get_spend_status(ledger, m).remaining_usd = remaining

C8_Witness ==
    \E m \in Months :
        /\ cap > 0
        /\ MonthTotal(ledger, m) > cap
        /\ get_remaining_budget(ledger, m) = 0
        /\ is_spend_cap_exceeded(ledger, m)

\* C9: of two estimates for the same model, the one with no fewer prompt
\* tokens and no fewer completion tokens costs no less; an estimate for a
\* model outside the price table equals the gpt-4 estimate for the same
\* token counts, and is no less than the estimate of any listed model for
\* the same token counts.
C9_EstimateMonotone ==
    LET a == est[1]
        b == est[2]
    IN (a.model # None /\ b.model # None) =>
        /\ (/\ a.model = b.model
            /\ a.prompt_tokens <= b.prompt_tokens
            /\ a.completion_tokens <= b.completion_tokens) => a.cost <= b.cost
        /\ (/\ b.model \notin KnownModels
            /\ a.prompt_tokens = b.prompt_tokens
            /\ a.completion_tokens = b.completion_tokens)
              => /\ a.model = "gpt-4" => b.cost = a.cost
                 /\ b.cost >= a.cost

C9_Witness ==
    /\ est[2].model = "other"
    /\ est[1].model = "gpt-4-turbo"
    /\ est[1].prompt_tokens = est[2].prompt_tokens
    /\ est[1].completion_tokens = est[2].completion_tokens
    /\ est[2].cost > est[1].cost

\* C10: with a cap above 0, is_exceeded for the current month is decided by
\* the rows of that month alone; when the month changes it is false, and a
\* turn that starts while the current month's total is below the cap goes on
\* to the LLM, whatever was spent in earlier months.
C10_BudgetResets ==
    [][cap > 0 =>
        /\ is_spend_cap_exceeded(ledger', now') = (MonthTotal(ledger', now') >= cap)
        /\ now' # now => ~is_spend_cap_exceeded(ledger', now')
        /\ \A s \in Sessions :
            (TurnStarts(s) /\ MonthTotal(ledger, now) < cap) =>
                /\ pc'[s] = "primary_send"
                /\ messages'[s] = Append(messages[s], UserMessage)]_vars

C10_Witness ==
    /\ cap > 0
    /\ now > 0
    /\ MonthTotal(ledger, now - 1) >= cap
    /\ \E i \in DOMAIN ledger : ledger[i].month_key = now
    /\ \E s \in Sessions : hist[s].sent >= 2

\* C11: the user always receives a text reply: process_chat_message never
\* raises to its caller, every result it returns carries a non-empty response
\* text, and the /chat handler answers a well-formed submission with an HTTP
\* success status.
C11_AlwaysReplies ==
    /\ \A s \in Sessions : ~raised[s]
    /\ \A s \in Sessions : result[s].response # ""
    /\ http.well_formed => http.status \in 200..299

\* C12: when the primary LLM request fails (a network error or a non-2xx
\* status, so no response is counted as answered), the turn returns success
\* false, spend_capped false and no itinerary; the apology is appended right
\* after the turn's user message, so it is the turn's single assistant
\* message; the turn is over in that step, so no tool action is executed; no
\* further request is sent (no retry) and the ledger is left as it was.
C12_PrimaryFailure ==
    [][\A s \in Sessions :
        (/\ pc[s] = "primary_wait"
         /\ pc'[s] # "primary_wait"
         /\ hist'[s].answered = hist[s].answered) =>
            /\ result'[s] = Result("llm_error", FALSE, FALSE, NoItinerary)
            /\ messages[s][Len(messages[s])] = UserMessage
            /\ messages'[s] = Append(messages[s], LlmErrorMessage)
            /\ pc'[s] = "idle"
            /\ hist'[s].sent = hist[s].sent
            /\ ledger' = ledger]_vars

C12_Witness ==
    \E s \in Sessions :
        /\ pc[s] = "idle"
        /\ result[s] = Result("llm_error", FALSE, FALSE, NoItinerary)
        /\ hist[s].sent = 1
        /\ hist[s].answered = 0
        /\ messages[s] = <<UserMessage, LlmErrorMessage>>

\* the tool calls that are rejected for what the user supplied
RejectedForInput == {"poi_rejected", "hotel_rejected", "finalize_rejected"}

\* C13: a batch that holds a tool call rejected for user input never makes
\* the turn fail: the turn returns success true whatever other calls of
\* well-formed arguments share the batch, a search with zero results that
\* takes the continuation included.
C13_RejectionNeverFailsTurn ==
    (/\ tc.status = "done"
     /\ \A i \in DOMAIN tc.calls : tc.calls[i] \in ToolOutcomes
     /\ \E i \in DOMAIN tc.calls : tc.calls[i] \in RejectedForInput)
        => tc.success

\* C14: once the batch has been handled there is one ActionResult for every
\* execute_travel_action call of the batch, and the result of a call whose
\* arguments are not a well-formed JSON object is the failed result of action
\* unknown.
C14_OneResultPerCall ==
    tc.status = "done" =>
        LET executed == SelectSeq(tc.calls, LAMBDA k : k # "other_function") IN
        /\ Len(tc.results) = Len(executed)
        /\ \A i \in DOMAIN executed :
            executed[i] \in {"invalid_json", "not_object"} =>
                tc.results[i] = ActionResult("unknown", FALSE, 0)

\* C15: once search_pois has returned, an empty city has given success false;
\* any other city has given success true with count the number of places that
\* the provider returned, use_llm_knowledge = (count = 0) and api_success =
\* (count >= 1); for a city outside the coordinate table the provider was not
\* called and count is 0; and when the provider raised, the result is the one
\* of an empty answer.
C15_SearchPoisResult ==
    (poi.op = "search_pois" /\ poi.status = "done") =>
        /\ poi.action.returned
        /\ poi.action.success = (poi.city # "")
        /\ poi.city # "" =>
            /\ poi.action.count = poi.places
            /\ poi.action.use_llm_knowledge = (poi.action.count = 0)
            /\ poi.action.api_success = (poi.action.count >= 1)
        /\ poi.city = "atlantis" =>
            poi.provider_calls = 0 /\ poi.action.count = 0
        /\ poi.provider = "raised" =>
            /\ poi.action.count = 0
            /\ poi.action.use_llm_knowledge
            /\ ~poi.action.api_success

C15_Witness ==
    /\ poi.op = "search_pois"
    /\ poi.status = "done"
    /\ poi.city = "paris"
    /\ poi.provider = "raised"
    /\ poi.action.success
    /\ poi.left = 0

\* C20: no exception leaves search_places_by_radius or get_place_details,
\* whatever fails upstream or in the cache.
C20_ProviderNeverRaises ==
    poi.op \in {"search_places_by_radius", "get_place_details"} =>
        poi.provider # "raised"

\* the arguments of the call miss a required field or carry a bad date
RejectedArguments ==
    \/ itin.city = "" \/ itin.n_days = 0
    \/ itin.start_date \in {"", "unparsable"}
    \/ itin.end_date \in {"", "unparsable"}

C17_AllOrNothing ==
    itin.status = "returned" =>
        IF itin.success
        THEN /\ itin.itineraries = 1
             /\ Len(itin.day_rows) = itin.n_days
        ELSE /\ itin.itineraries = 0
             /\ itin.day_rows = <<>>
             /\ itin.item_rows = <<>>

\* the part of s between its first and its last character that is neither a
\* space nor a hyphen
Trimmed(s) ==
    LET kept == {i \in DOMAIN s : s[i] \notin {" ", "-"}} IN
    IF kept = {} THEN <<>>
    ELSE SubSeq(s, CHOOSE i \in kept : \A j \in kept : i <= j,
                   CHOOSE i \in kept : \A j \in kept : j <= i)

Occurrences(seq, v) == Cardinality({i \in DOMAIN seq : seq[i] = v})

\* the notes that the activities of a day object should read back as
ExpectedNotes(day_data) ==
    [i \in DOMAIN day_data.activities |->
        LET activity == Activity(day_data.activities[i]) IN
        Trimmed(activity.name \o <<" ", "-", " ">> \o activity.notes)]

\* C18: an itinerary finalized successfully with N days, read back through
\* the export, has N days in increasing order of day_index; the day of each
\* day object has as many items as the day object has activities, and the
\* notes of the items are the trimmed "{name} - {notes}" of the activities;
\* days_count is N.
C18_RoundTrip ==
    itin.status = "exported" =>
        /\ itin.days_count = itin.n_days
        /\ Len(itin.export) = itin.n_days
        /\ \A k \in DOMAIN itin.export :
            k > 1 => itin.export[k - 1].day_index < itin.export[k].day_index
        /\ \A d \in DOMAIN itin.days :
            \E k \in DOMAIN itin.export :
                /\ itin.export[k].day_index = itin.days[d].day_index
                /\ Len(itin.export[k].items) = itin.days[d].n_activities
                /\ Len(itin.days[d].activities) = itin.days[d].n_activities
                /\ \A i \in DOMAIN itin.export[k].items :
                    Occurrences(itin.export[k].items, itin.export[k].items[i])
                        = Occurrences(ExpectedNotes(itin.days[d]),
                                      itin.export[k].items[i])

C18_Witness ==
    /\ itin.status = "exported"
    /\ itin.n_days = 2
    /\ itin.days[1].day_index = 1
    /\ itin.days[2].day_index = 0
    /\ itin.days[1].activities = <<"dashes", "bare">>
    /\ itin.export[2].items = <<<<"a">>, <<"a", " ", "-", " ", "b">>>>

\* The bracketed tags of a text that contain the word: one for every "]"
\* that has, since the previous "]", a "[" with the word after it; the tag
\* starts at the first such "[".
TagStart(text, q) ==
    LET after == {r \in 1..q - 1 : text[r] = "]"}
        from == IF after = {} THEN 1
                ELSE (CHOOSE r \in after : \A s \in after : s <= r) + 1
        starts == {p \in from..q - 1 :
                    text[p] = "[" /\ \E a \in p + 1..q - 1 : text[a] = "A"}
    IN IF starts = {} THEN 0 ELSE CHOOSE p \in starts : \A s \in starts : p <= s

Tags(text) ==
    {q \in DOMAIN text : text[q] = "]" /\ TagStart(text, q) # 0}

Braces(text, b, e, ch) == Cardinality({i \in b..e : text[i] = ch})

\* the object that follows the tag closed at q: from the nearest following
\* "{" to the first position where as many "}" as "{" have been read;
\* <<>> when there is none
ObjectAfter(text, q) ==
    LET opens == {b \in q + 1..Len(text) : text[b] = "{"} IN
    IF opens = {} THEN <<>>
    ELSE LET b == CHOOSE o \in opens : \A o2 \in opens : o <= o2
             ends == {e \in b..Len(text) :
                        Braces(text, b, e, "{") = Braces(text, b, e, "}")}
         IN IF ends = {} THEN <<>>
            ELSE SubSeq(text, b, CHOOSE e \in ends : \A e2 \in ends : e <= e2)

TagsWithObject(text) == {q \in Tags(text) : ObjectAfter(text, q) # <<>>}

C21_AtMostLimit ==
    hotel.status = "done" => hotel.returned <= hotel.limit

\* the loop over the tool calls has dispatched every call of the batch
Dispatched == tc.status # "rest" /\ tc.i > Len(tc.calls)

\* the no-tools continuation request has been issued
ContinuationIssued == tc.status = "continuation" \/ tc.continued

SearchCameBackEmpty ==
    \E r \in Range(tc.results) :
        r.success /\ r.action \in {"search_pois", "search_hotels"} /\ r.count = 0

FinalizeSucceeded ==
    \E r \in Range(tc.results) : r.success /\ r.action = "finalize_itinerary"

\* C22: after the batch has been dispatched, the continuation call is issued
\* iff the generated text is empty, or a successful search_pois or
\* search_hotels result has count 0 and no finalize_itinerary succeeded; the
\* text is empty only when every result of a non-empty batch is a successful
\* search_pois with count 0.
C22_ContinuationIff ==
    (Dispatched /\ tc.status # "loop") =>
        LET empty_text == generate_tool_response(tc.results) = <<>> IN
        /\ ContinuationIssued
            <=> (empty_text \/ (SearchCameBackEmpty /\ ~FinalizeSucceeded))
        /\ empty_text =>
            /\ tc.results # <<>>
            /\ \A r \in Range(tc.results) :
                r.success /\ r.action = "search_pois" /\ r.count = 0

\* The continuation call of the turn of s fails in this step: its request
\* fails, or a read or the insert of its ledger entry fails, or its response
\* is malformed.
ContinuationFails(s) ==
    /\ pc'[s] = "idle"
    /\ \/ pc[s] = "cont_wait"
       \/ /\ pc[s] \in {"rec_check", "rec_spend", "rec_write"}
          /\ loc[s].call = "continuation"
          /\ loc[s].shape = "malformed" \/ ledger' = ledger

\* the store of the reply of the turn worked
ReplyStored(s) ==
    /\ Len(messages'[s]) = Len(messages[s]) + 1
    /\ messages'[s][Len(messages'[s])].content # "unexpected_error"

ReportedCalls(s) ==
    LET l == loc[s]
        primary == [prompt |-> l.primary_prompt, completion |-> l.primary_completion]
        current == [prompt |-> l.prompt_tokens, completion |-> l.completion_tokens]
    IN CASE pc[s] = "rec_write" /\ l.call = "primary" -> <<current>>
         [] pc[s] = "rec_write" /\ l.call = "continuation" -> <<primary, current>>
         [] OTHER -> <<primary>>

RECURSIVE SumPrompt(_)
SumPrompt(calls) ==
    IF calls = <<>> THEN 0 ELSE Head(calls).prompt + SumPrompt(Tail(calls))

RECURSIVE SumCompletion(_)
SumCompletion(calls) ==
    IF calls = <<>> THEN 0 ELSE Head(calls).completion + SumCompletion(Tail(calls))

\* the cost that record_llm_call writes for the calls
RECURSIVE SumRecorded(_)
SumRecorded(calls) ==
    IF calls = <<>> THEN 0
    ELSE estimate_call_cost(openai_model, Head(calls).prompt, Head(calls).completion)
            + SumRecorded(Tail(calls))

\* C24: on a successful turn the stored assistant message carries the sums of
\* the prompt and completion tokens reported by all LLM calls of the turn and,
\* as cost_usd, the total cost that the ledger records for those calls.
C24_AssistantMessageTotals ==
    [][\A s \in Sessions :
        (pc[s] \in {"rec_write", "tools", "cont_wait"}
            /\ loc[s].call # "gate" /\ pc'[s] = "idle" /\ result'[s].success) =>
            LET stored == messages'[s][Len(messages'[s])]
                calls == ReportedCalls(s)
            IN /\ stored.tokens_in = SumPrompt(calls)
               /\ stored.tokens_out = SumCompletion(calls)
               /\ stored.cost_usd = SumRecorded(calls)]_vars

\* the turns that session s has started: its stored user messages
TurnsOf(s) ==
    Cardinality({i \in DOMAIN messages[s] : messages[s][i].role = "user"})

SucceededFinalizes ==
    {i \in DOMAIN tc.results :
        tc.results[i].action = "finalize_itinerary" /\ tc.results[i].success}

\* C26: the itinerary_id returned for the turn is that of the last successful
\* finalize_itinerary in the order of the response, or null when none
\* succeeded; a turn that takes the continuation call returns null.
C26_LastItineraryReturned ==
    tc.status = "done" =>
        /\ tc.itinerary_id =
                IF SucceededFinalizes = {} THEN NoItinerary
                ELSE CHOOSE i \in SucceededFinalizes :
                        \A j \in SucceededFinalizes : j <= i
        /\ tc.continued => tc.itinerary_id = NoItinerary

\* the entries of a context that carry the message of the turn in progress:
\* the copy of its stored row, and the message given to the call
OfThisTurn(context) ==
    {i \in DOMAIN context :
        \/ context[i].id = Len(ctx.stored)
        \/ context[i].id = 0 /\ context[i].role = "user"}

\* the entries of a context copied from the store
Copied(context) == {i \in DOMAIN context : context[i].id # 0}

\* C27: every request sent to the LLM holds the user's message of the turn
\* exactly once: the primary context is the system prompt, the optional
\* context block, at most 10 stored user and assistant messages oldest first
\* and the message; the continuation context holds at most 8 stored messages
\* and the message once; building a context changes no stored message.
C27_MessageExactlyOnce ==
    /\ [](/\ ctx.status \in {"primary", "continuation"} =>
                /\ Cardinality(OfThisTurn(ctx.primary)) = 1
                /\ Cardinality(Copied(ctx.primary)) <= HistoryLimit
                /\ ctx.primary[1] = SystemEntry("system_prompt")
                /\ ctx.primary[Len(ctx.primary)].role = "user"
                /\ ctx.primary[Len(ctx.primary)].content = ctx.current_message
                /\ \A i, j \in Copied(ctx.primary) :
                        i < j => ctx.primary[i].id < ctx.primary[j].id
                /\ \A i \in Copied(ctx.primary) :
                        ctx.primary[i].role \in {"user", "assistant"}
          /\ ctx.status = "continuation" =>
                /\ Cardinality(OfThisTurn(ctx.continuation)) = 1
                /\ Cardinality(Copied(ctx.continuation)) <= ContinuationLimit)
    /\ [][ctx'.status \in {"primary", "continuation"} =>
                ctx'.stored = ctx.stored]_vars

\* the messages that a step appends to session s
Appended(s) == SubSeq(messages'[s], Len(messages[s]) + 1, Len(messages'[s]))

\* a step on which a call of process_chat_message for session s returns: the
\* turn in progress ends, or a call that takes one step hands back a result
\* or stores an assistant message
ReturnsFrom(s) ==
    /\ pc'[s] = "idle"
    /\ \/ pc[s] # "idle"
       \/ result'[s] # result[s]
       \/ /\ Appended(s) # <<>>
          /\ Appended(s)[Len(Appended(s))].role = "assistant"

\* the roles of the messages that the returning call appended, in order; a
\* turn in progress stored its first message when it began
RolesAppended(s) ==
    LET call == IF pc[s] = "idle" THEN Appended(s)
                ELSE <<messages[s][Len(messages[s])]>> \o Appended(s)
    IN [i \in DOMAIN call |-> call[i].role]

\* the user message is stored before the first request of the turn and
\* nothing is stored or sent between it and the return
StoredAroundTheCalls ==
    /\ [](\A s \in Sessions : pc[s] # "idle" =>
            /\ messages[s] # <<>>
            /\ messages[s][Len(messages[s])].role = "user")
    /\ [][\A s \in Sessions :
            /\ hist'[s].sent # hist[s].sent => pc[s] # "idle"
            /\ (pc[s] # "idle" /\ pc'[s] # "idle") => messages'[s] = messages[s]]_vars

\* C28 as stated: every call of process_chat_message that returns has appended
\* exactly one user message and then, unless the store of it failed, exactly
\* one assistant message; the user message is stored before the first LLM
\* call of the turn and the assistant message after the last.
C28_OneUserOneAssistant ==
    /\ StoredAroundTheCalls
    /\ [][\A s \in Sessions : ReturnsFrom(s) =>
            RolesAppended(s) \in {<<"user", "assistant">>, <<"user">>}]_vars

\* C28 amended: a call that returns anything but the apology for an unexpected
\* error has appended exactly one user message and then exactly one assistant
\* message; a call that returns that apology has appended at most one of
\* each, in that order, and no user message only when it made no LLM call;
\* the user message is stored before the first LLM call of the turn and the
\* assistant message after the last.
C28_OneUserUnlessItsStoreFails ==
    /\ StoredAroundTheCalls
    /\ [][\A s \in Sessions : ReturnsFrom(s) =>
            IF result'[s].response # "unexpected_error"
            THEN RolesAppended(s) = <<"user", "assistant">>
            ELSE /\ RolesAppended(s) \in {<<>>, <<"assistant">>, <<"user">>,
                                         <<"user", "assistant">>}
                 /\ (RolesAppended(s) \in {<<>>, <<"assistant">>}) =>
                        pc[s] = "idle"]_vars

\* a turn that made both LLM calls has returned with its two messages stored
C28_Witness ==
    \E s \in Sessions :
        /\ pc[s] = "idle"
        /\ hist[s].sent = 2
        /\ result[s].success
        /\ Len(messages[s]) = 2
        /\ messages[s][1].role = "user"
        /\ messages[s][2].role = "assistant"

\* the rows of month m that carry the flag
Flagged(rows, m) ==
    {i \in DOMAIN rows : rows[i].month_key = m /\ rows[i].blocked_after}

\* row i is the one whose write first brought the total of month m to the cap
FirstAtCap(rows, m, i) ==
    /\ rows[i].month_key = m
    /\ TotalUpTo(rows, m, i - 1) < cap
    /\ TotalUpTo(rows, m, i) >= cap

OneFlagAtTheCap(rows) ==
    \A m \in Months :
        /\ Cardinality(Flagged(rows, m)) <= 1
        /\ \A i \in Flagged(rows, m) : FirstAtCap(rows, m, i)

\* C29 as stated: in every reachable state at most one row of a month has
\* blocked_after true, and it is the row whose write first brought the total
\* of that month to the cap or over, however the calls interleave.
C29_OneFlagPerMonth == OneFlagAtTheCap(ledger)

\* C29 as amended: a record_llm_call during which no other row is written and
\* the month does not change keeps that property: after it, as before it, at
\* most one row of a month has blocked_after true, the row whose write first
\* brought the total of that month to the cap or over.
C29_OneFlagKeptByUndisturbedCall ==
    [][\A s \in Sessions :
        (/\ RecordCompletes(s)
         /\ loc[s].begin_rows = Len(ledger)
         /\ loc[s].begin_month = now
         /\ OneFlagAtTheCap(ledger))
            => OneFlagAtTheCap(ledger')]_vars

\* the cap was reached by an undisturbed call, whose row carries the only
\* flag of the month, and a later row of the month carries none
C29_Witness ==
    \E i, j \in DOMAIN ledger :
        /\ i < j
        /\ ledger[i].month_key = ledger[j].month_key
        /\ Flagged(ledger, ledger[i].month_key) = {i}
        /\ FirstAtCap(ledger, ledger[i].month_key, i)
        /\ ledger[j].cost_usd > 0
        /\ OneFlagAtTheCap(ledger)

\* C30: a radius search that follows one which fetched from upstream and
\* cached the answer, the entry not having expired, makes no HTTP request
\* and returns the places that the earlier search returned, also when those
\* came from the JSON fallback request or were none; an expired entry is
\* deleted by the lookup and not used.
C30_RepeatServedFromCache ==
    /\ (/\ poi.status = "done"
        /\ poi.op # None
        /\ Endpoint(poi.op) = "radius_search"
        /\ poi.provider = "returned"
        /\ poi.provider_calls = 1
        /\ poi.earlier.fetched
        /\ ~poi.expired)
            => /\ poi.requests = 0
               /\ poi.places = poi.earlier.places
    /\ (poi.expired /\ poi.status = "fetch") =>
            /\ poi.cache[Endpoint(poi.op)] = NoValue
            /\ poi.requests = 0

====
